---- MODULE Spec2Model ----
\* A model of the UsergeTeam loader: the plugin selection of init_repos, the
\* materialization pipeline with its two sentinels, the supervisor's restart loop
\* and the child's RPC transport.
EXTENDS Integers, Sequences, FiniteSets, TLC

\* ------------------------------------------------------------------ bounds
\* plugin directories the repos list, all together, in one pass of init_repos
MaxPlugins == 3
\* largest commit count of the core repository
MaxCoreCount == 2

\* ------------------------------------------------------------------ values
\* plugin directory names; "r" is in the removed-plugins set
Names == {"a", "b", "r"}
\* names a manifest may depend on; no repo ships "z"
DepNames == {"a", "z"}
Cats == {"x", "y"}
RepoIds == {0, 1}
Priorities == {0, 5, 10}

\* str.startswith("_") on the names of the model
StartsWithUnderscore(n) == n \in {"_a"}

\* Optional[int] of _Parser.getint: unset, or a value
None == [set |-> FALSE, v |-> 0]
Some(v) == [set |-> TRUE, v |-> v]

\* Python truthiness of an Optional[int]: None and 0 are both false
Truthy(o) == o.set /\ o.v # 0

\* str.lower on the client types the model uses
Lower(s) == CASE s = "Bot" -> "bot" [] s = "User" -> "user" [] OTHER -> s

\* One requirement specifier "name cond version", as _REQUIREMENTS splits it.
Req(n, c, v) == [name |-> n, cond |-> c, version |-> v]

\* The manifest every field of which is unset except available = true.
Plain ==
    [available |-> "True", min_core |-> None, max_core |-> None,
     client_type |-> "None", envs |-> {}, bins |-> {}, depends |-> {},
     packages |-> {}]

PackageSets == {{Req("p", ">=", 2)}, {Req("p", "<=", 1)}}
DependSets == {d \in SUBSET DepNames : Cardinality(d) \in {1, 2}}

\* The manifests a listing may hold: Plain with one field set.
Configs ==
    {Plain}
    \cup {[Plain EXCEPT !.available = v] : v \in {"False", "None"}}
    \cup {[Plain EXCEPT !.min_core = Some(v)] : v \in {0, MaxCoreCount, MaxCoreCount + 1}}
    \cup {[Plain EXCEPT !.max_core = Some(v)] : v \in {0, MaxCoreCount - 1, MaxCoreCount}}
    \cup {[Plain EXCEPT !.client_type = v] : v \in {"bot", "Bot", "user"}}
    \cup {[Plain EXCEPT !.envs = v] : v \in {{"token"}, {"blank"}, {"unset"}}}
    \cup {[Plain EXCEPT !.bins = v] : v \in {{"ffmpeg"}, {"nobin"}}}
    \cup {[Plain EXCEPT !.depends = v] : v \in DependSets}
    \cup {[Plain EXCEPT !.packages = v] : v \in PackageSets}
    \cup {[Plain EXCEPT !.depends = {"a"}, !.packages = {Req("p", ">=", 2)}]}

\* executables shutil.which finds
PathBins == {"ffmpeg"}

\* the names RemovedPlugins holds
RemovedPlugins_data == {"r"}

VARIABLES
    environ,        \* os.environ: a function from the names that are set to values
    Repos_plugins,  \* Repos._plugins: the repo list, kept sorted by priority
    core,           \* Repos._core: branch, version ("" is 0), count, failed
    sel_pc,         \* init_repos: "idle", "scan", "done" or "raised"
    sel_i,          \* index in Repos_plugins of the repo being scanned
    sel_n,          \* plugin directories listed so far in this scan
    plugins,        \* the selection map of init_repos: name -> plugin
    producers,      \* history: name -> ids of the repos that shipped it eligible
    overridden,     \* the override lines init_repos logged in this pass
    conflicts,      \* init_repos: the conflicts grab_conflicts returned
    retained,       \* history: plugins when grab_requirements first ran
    builtin,        \* plugin directories under the core's plugins/builtin
    tree,           \* non-builtin plugin directories of the child tree
    pc,             \* where the loader process is
    S_init,         \* Session._init
    S_restart,      \* Session._restart
    proc,           \* the child process: "none", "alive", "terminated", "dead", "closed"
    handlers,       \* run_userge has installed its signal handlers
    p_p,            \* the loader's end of the pipe: "none", "open" or "closed"
    loaded,         \* Repos._loaded
    argv_reset,     \* the process was started with the argument "reset"
    sig_core,       \* .rcache/.sig_core exists
    sig_repos,      \* .rcache/.sig_repos exists
    store_core,     \* the Store's config document of key "core": <<>> or <<doc>>
    store_repos,    \* the Store's repos collection
    Requirements_data, \* Requirements._data
    src_tree,       \* the core version whose source is the child tree; 0: none
    core_head,      \* HEAD of the core working copy: "branch" or "detached"
    restart_kind,   \* history: the restart job handled for the child that runs
    cause,          \* history: restart_kind of the child before this one
    stages,         \* history: pipeline stages run since the last child ended
    work,           \* history: the work the current pipeline pass did
    runs,           \* history: passes completed since the last change, up to 2
    c2p,            \* frames the child has sent that the loader has not received
    p2c,            \* replies the loader has sent that the child has not received
    lock,           \* connection._LOCK: its holder, or "none"
    a_lock,         \* connection._A_LOCK: its holder, or "none"
    callers,        \* the child's callers: position, kind of call, request frame
    served,         \* the result the loop holds between recv() and send()
    sent,           \* history: the frames sent, with their callers, in order
    received,       \* history: the replies received, with their callers, in order
    conn,           \* connection._Conn._instance of the child: "open" or "closed"
    counter,        \* _PluginsRepo._counter: the id the next parsed repo gets
    conf_tmp,       \* config.env.tmp: a function from the keys written to values
    last,           \* history: the job handled last, its arguments and the state before
    git_error,      \* _error_code and _stderr of the handle: <<>> or <<code, stderr>>
    git_head,       \* HEAD of the handle's clone: <<>> (no clone) or [ref, commit]
    ret,            \* history: the operation run last on the handle and what it returned
    Constraints_data,  \* Constraints._data: kind -> the raw rules of the kind
    store_constraint,  \* the Store's constraint collection: documents [type, data]
    decision        \* history: the plugin matched since the rules were last touched

selVars == <<sel_pc, sel_i, sel_n, plugins, producers, overridden, conflicts, retained, builtin>>

sessionVars == <<S_init, S_restart, proc, handlers, p_p>>

storeVars == <<loaded, argv_reset, store_core, store_repos>>

fileVars == <<sig_core, sig_repos, Requirements_data, src_tree, core_head>>

histVars == <<restart_kind, cause, stages, work, runs>>

lifeVars == <<pc, sessionVars, storeVars, fileVars, histVars>>

rpcVars == <<c2p, p2c, lock, a_lock, callers, served, sent, received, conn>>

jobVars == <<counter, conf_tmp, last>>

handleVars == <<git_error, git_head, ret>>

constVars == <<Constraints_data, store_constraint, decision>>

auxVars == <<jobVars, handleVars, constVars>>

vars == <<environ, Repos_plugins, core, tree, selVars, lifeVars, rpcVars, auxVars>>

\* ------------------------------------------------------------------ helpers
\* os.environ.get(key) is truthy: the key is set and its value is not empty
EnvTruthy(env, key) == key \in DOMAIN env /\ env[key] # ""

\* utils.get_client_type
get_client_type(env) ==
    IF EnvTruthy(env, "BOT_TOKEN") /\ EnvTruthy(env, "SESSION_STRING") THEN "dual"
    ELSE IF EnvTruthy(env, "BOT_TOKEN") THEN "bot"
    ELSE IF EnvTruthy(env, "SESSION_STRING") THEN "user"
    ELSE "None"

RECURSIVE InsertByPriority(_, _)
\* list.sort(key=priority) is stable: r goes after every repo of priority <= its own
InsertByPriority(sorted, r) ==
    IF sorted = <<>> THEN <<r>>
    ELSE IF Head(sorted).priority <= r.priority
         THEN <<Head(sorted)>> \o InsertByPriority(Tail(sorted), r)
         ELSE <<r>> \o sorted

\* a sort that leaves the list in the order of the Store
Repos_unsorted(list) == list

RECURSIVE Repos_sort(_)
\* Repos.sort
Repos_sort(list) ==
    IF list = <<>> THEN <<>>
    ELSE InsertByPriority(Repos_sort(SubSeq(list, 1, Len(list) - 1)), list[Len(list)])

\* ------------------------------------------------------------------ init_repos: the scan
\* The eligibility checks of init_repos in their order: the reason a plugin is
\* ignored for, or "" when it is kept.
Reason(conf, name, core_version, client_type, env) ==
    IF conf.available # "True" THEN "not available"
    ELSE IF name \in RemovedPlugins_data THEN "removed"
    ELSE IF Truthy(conf.min_core) /\ conf.min_core.v > core_version THEN "min core"
    ELSE IF Truthy(conf.max_core) /\ conf.max_core.v < core_version THEN "max core"
    ELSE IF conf.client_type \notin {"None", ""}
            /\ Lower(conf.client_type) # client_type THEN "client type"
    ELSE IF \E e \in conf.envs : ~EnvTruthy(env, e) THEN "env"
    ELSE IF \E b \in conf.bins : b \notin PathBins THEN "bin"
    ELSE ""

\* The eligibility predicates as the specification states them: available, the core
\* count within the bounds that are set, the client type the runtime one, every env
\* set and non-empty, every bin on PATH.
MeetsPredicates(conf, core_version, client_type, env) ==
    /\ conf.available = "True"
    /\ conf.min_core.set => conf.min_core.v <= core_version
    /\ conf.max_core.set => conf.max_core.v >= core_version
    /\ conf.client_type # "None" => Lower(conf.client_type) = client_type
    /\ \A e \in conf.envs : EnvTruthy(env, e)
    /\ \A b \in conf.bins : b \in PathBins

\* Install as dict.setdefault would do it: the first plugin of a name stays
InstallFirst(plgs, plg) ==
    [n \in DOMAIN plgs \cup {plg.name} |->
        IF n \in DOMAIN plgs THEN plgs[n] ELSE plg]

\* plugins[plg.name] = plg
Install(plgs, plg) ==
    [n \in DOMAIN plgs \cup {plg.name} |-> IF n = plg.name THEN plg ELSE plgs[n]]

\* del plugins[name]
Delete(plgs, name) == [n \in DOMAIN plgs \ {name} |-> plgs[n]]

\* _Plugin.parse: the plugin with the fields of its manifest that init_repos reads
\* after the scan. meets is history: whether the manifest met the eligibility
\* predicates as the specification states them when the plugin was scanned.
Plugin(cat, name, conf, repo, meets) ==
    [name |-> name, cat |-> cat, repo |-> repo.id, depends |-> conf.depends,
     packages |-> conf.packages, meets |-> meets]

\* ------------------------------------------------------------------ init_repos: after the scan
\* _CoreRepo.get_plugins: the names of the builtin listing the filter keeps. isdir is
\* given the bare name, so it is resolved against the working directory, not the
\* builtin directory.
get_plugins(listing, cwd_dirs) ==
    {n \in listing : n \in cwd_dirs /\ ~StartsWithUnderscore(n)}

\* for c_plg in get_plugins(): if c_plg in plugins: plugins.pop(c_plg)
RemoveBuiltins(plgs, c_plgs) == [n \in DOMAIN plgs \ c_plgs |-> plgs[n]]

RECURSIVE DepPass(_, _, _, _, _)
\* One pass of resolve_depends over the snapshot tuple(plugins.values()), from its
\* k-th plugin. A plugin with a missing dependency is deleted at the first missing
\* name; the loop over its dependencies goes on, and a second name that is missing
\* (its own, once it is deleted, when the set yields it late) deletes it again,
\* which raises KeyError.
DepPass(plgs, snap, k, all_ok, late) ==
    IF k > Len(snap) THEN [raised |-> FALSE, plugins |-> plgs, all_ok |-> all_ok]
    ELSE LET plg == snap[k]
             deps == plg.depends
             missing == {d \in deps : d \notin DOMAIN plgs}
         IN  IF missing = {} THEN DepPass(plgs, snap, k + 1, all_ok, late)
             ELSE IF Cardinality(missing) >= 2
                     \/ (plg.name \in deps /\ plg.name \in late)
                  THEN [raised |-> TRUE, plugins |-> Delete(plgs, plg.name),
                        all_ok |-> FALSE]
                  ELSE DepPass(Delete(plgs, plg.name), snap, k + 1, FALSE, late)

\* tuple(plugins.values()): the plugins in the dict's order
Snapshot(plgs, order) ==
    LET names == SelectSeq(order, LAMBDA n : n \in DOMAIN plgs)
    IN  [j \in 1..Len(names) |-> plgs[names[j]]]

\* resolve_depends without its while loop: a single pass
resolve_depends_once(plgs, order, late) ==
    LET r == DepPass(plgs, Snapshot(plgs, order), 1, TRUE, late)
    IN  [raised |-> r.raised, plugins |-> r.plugins]

RECURSIVE resolve_depends(_, _, _)
\* init_repos.resolve_depends: passes until one removes nothing
resolve_depends(plgs, order, late) ==
    IF DOMAIN plgs = {} THEN [raised |-> FALSE, plugins |-> plgs]
    ELSE LET r == DepPass(plgs, Snapshot(plgs, order), 1, TRUE, late)
         IN  IF r.raised THEN [raised |-> TRUE, plugins |-> r.plugins]
             ELSE IF r.all_ok THEN [raised |-> FALSE, plugins |-> r.plugins]
             ELSE resolve_depends(r.plugins, order, late)

\* init_repos.grab_requirements
grab_requirements(plgs) == UNION {plgs[n].packages : n \in DOMAIN plgs}

\* ------------------------------------------------------------------ grab_conflicts
Range(f) == {f[j] : j \in DOMAIN f}

Min(S) == CHOOSE m \in S : \A n \in S : m <= n
Max(S) == CHOOSE m \in S : \A n \in S : m >= n

RECURSIVE SortDesc(_)
\* sorted(versions, reverse=True); the model's versions are one-character strings,
\* whose string order is their numeric order
SortDesc(S) == IF S = {} THEN <<>> ELSE <<Max(S)>> \o SortDesc(S \ {Max(S)})

\* sequence of grab_conflicts: (gt, ge, neq), (ge, eq, le), (le, lt, neq)
sequence == << <<">", ">=", "!=">>, <<">=", "==", "<=">>, <<"<=", "<", "!=">> >>

\* the patterns one step of the outer loop adds: seq, combinations(seq, 2), and
\* the singletons seq[0..i]
PatternOf(i) ==
    LET seq == sequence[i]
    IN  << {seq[1], seq[2], seq[3]}, {seq[1], seq[2]}, {seq[1], seq[3]},
           {seq[2], seq[3]} >> \o [j \in 1..i |-> {seq[j]}]

pattern == PatternOf(1) \o PatternOf(2) \o PatternOf(3)

\* a search that takes the last check of pattern that is in args
LastMatch(args) ==
    LET ks == {k \in 1..Len(pattern) : pattern[k] \subseteq args}
    IN  IF ks = {} THEN 0 ELSE Max(ks)

\* the first check of pattern all of whose operators are in args; 0 when none is
FirstMatch(args) ==
    LET ks == {k \in 1..Len(pattern) : pattern[k] \subseteq args}
    IN  IF ks = {} THEN 0 ELSE Min(ks)

\* to_audit[name]: version -> operators, "~=" stored as ">="; requirements with no
\* operator character are not audited
to_audit(requirements, name) ==
    LET reqs == {r \in requirements : r.cond # "" /\ r.name = name}
    IN  [v \in {r.version : r \in reqs} |->
            {IF r.cond = "~=" THEN ">=" ELSE r.cond : r \in {q \in reqs : q.version = v}}]

RECURSIVE StatedAudit(_, _, _, _)
\* the audit of one package as C34 words it: the breakpoint is declared unless
\* the matched pattern holds nothing but '<=' and '<'
StatedAudit(versions, order, k, found) ==
    IF k > Len(order) THEN versions
    ELSE LET v == order[k]
             args == versions[v]
             m == FirstMatch(args)
         IN  IF found
             THEN StatedAudit([versions EXCEPT ![v] = args \ {">", ">=", "!="}],
                              order, k + 1, TRUE)
             ELSE IF m = 0 THEN StatedAudit(versions, order, k + 1, FALSE)
             ELSE StatedAudit([versions EXCEPT ![v] = args \ pattern[m]], order, k + 1,
                              ~(pattern[m] \subseteq {"<=", "<"}))

RECURSIVE AuditVersions(_, _, _, _)
\* the loop over one package's versions in descending order, from position k
AuditVersions(versions, order, k, found) ==
    IF k > Len(order) THEN versions
    ELSE LET v == order[k]
             args == versions[v]
             m == FirstMatch(args)
         IN  IF found
             THEN AuditVersions([versions EXCEPT ![v] = args \ Range(sequence[1])],
                                order, k + 1, TRUE)
             ELSE IF m = 0 THEN AuditVersions(versions, order, k + 1, FALSE)
             ELSE AuditVersions([versions EXCEPT ![v] = args \ pattern[m]], order,
                                k + 1, pattern[m] \cap Range(sequence[3]) = {})

\* utils.grab_conflicts: the operators left behind, rebuilt as name + arg + version
grab_conflicts(requirements) ==
    UNION {LET versions == to_audit(requirements, name)
               left == AuditVersions(versions, SortDesc(DOMAIN versions), 1, FALSE)
           IN  UNION {{Req(name, arg, v) : arg \in left[v]} : v \in DOMAIN left}
           : name \in {r.name : r \in {q \in requirements : q.cond # ""}}}

\* a conflict removal that removes nothing
DropNothing(plgs, found) == plgs

\* the plugins a conflict removes: those whose packages hold a conflicting specifier
DropConflicts(plgs, found) ==
    [n \in {m \in DOMAIN plgs : plgs[m].packages \cap found = {}} |-> plgs[n]]

\* Everything init_repos does between the scan and clean_plugins: builtin removal,
\* dependency closure, conflict removal and, after a conflict, closure again.
\* raised: resolve_depends raised KeyError, which ends init_repos there.
Select(plgs, c_plgs, order, late) ==
    LET r1 == resolve_depends(RemoveBuiltins(plgs, c_plgs), order, late)
        requirements == grab_requirements(r1.plugins)
        found == IF requirements = {} THEN {} ELSE grab_conflicts(requirements)
    IN  IF r1.raised
        THEN [raised |-> TRUE, plugins |-> r1.plugins, retained |-> <<>>, conflicts |-> {}]
        ELSE LET r2 == IF found = {} THEN r1
                       ELSE resolve_depends(DropConflicts(r1.plugins, found), order, late)
             IN  [raised |-> r2.raised, plugins |-> r2.plugins, retained |-> r1.plugins,
                  conflicts |-> found]

\* Sig._make that creates nothing
Sig_make_nothing(exists) == exists

\* Sig._make and Sig._remove, as the new existence of the file
Sig_make(exists) == TRUE

Sig_remove(exists) == FALSE

\* a clean_plugins that removes nothing
clean_nothing(t) == t

\* utils.clean_plugins: every category directory of userge/plugins other than
\* builtin is removed; the tree holds the directories outside builtin
clean_plugins(t) == {}

\* plg.copy() for every plugin of the selection
Copied(plgs) ==
    {[cat |-> plgs[n].cat, name |-> n, repo |-> plgs[n].repo] : n \in DOMAIN plgs}

\* the orders a dict of these keys can have
Orders(S) == {f \in [1..Cardinality(S) -> S] : \A i, j \in DOMAIN f : f[i] = f[j] => i = j}

\* ------------------------------------------------------------------ the selection machine
\* the repo lists Repos.load reads from the Store: two repos, the second of a lower,
\* the same or a higher priority than the first, each failed or not
RepoLists ==
    {<<[id |-> 0, priority |-> 5, url |-> "u0", failed |-> FALSE],
       [id |-> 1, priority |-> p1, url |-> "u1", failed |-> f1]>>
        : p1 \in Priorities, f1 \in BOOLEAN}

BuiltinListings == {{}, {"a"}, {"a", "_a"}}
CwdDirSets == {{"userge"}, {"userge", "a"}}

\* the job handled last, when none was
NoJob == [job |-> "none"]

\* the kinds of constraint, in the order of Constraints._data
Kinds == <<"include", "exclude", "in">>

\* no constraint is set and no plugin was matched
ConstIdle ==
    /\ Constraints_data = [k \in Range(Kinds) |-> {}]
    /\ store_constraint = {}
    /\ decision = <<>>

\* no job was handled and no operation was run on a handle
AuxIdle ==
    /\ counter = 0
    /\ conf_tmp = <<>>
    /\ last = NoJob
    /\ git_error = <<>>
    /\ git_head = <<>>
    /\ ret = <<>>
    /\ ConstIdle

\* the child's callers: two coroutines of its event loop and one other thread
Callers == {"co1", "co2", "th"}

\* no call is in progress
RpcIdle ==
    /\ c2p = <<>>
    /\ p2c = <<>>
    /\ lock = "none"
    /\ a_lock = "none"
    /\ callers = [c \in Callers |-> [pc |-> "idle", mode |-> "sync", frame |-> <<>>, out |-> "none"]]
    /\ served = <<>>
    /\ sent = <<>>
    /\ received = <<>>
    /\ conn = "open"

\* the loader process at rest between two pipeline passes, as the selection sees it
LifeIdle ==
    /\ pc = "init_repos"
    /\ S_init = FALSE
    /\ S_restart = FALSE
    /\ proc = "none"
    /\ handlers = FALSE
    /\ p_p = "none"
    /\ loaded = TRUE
    /\ argv_reset = FALSE
    /\ sig_core = TRUE
    /\ sig_repos = FALSE
    /\ store_core = <<>>
    /\ store_repos = <<>>
    /\ Requirements_data = {}
    /\ src_tree = 0
    /\ core_head = "branch"
    /\ restart_kind = "none"
    /\ cause = "none"
    /\ stages = {}
    /\ work = {}
    /\ runs = 0

InitSel ==
    /\ environ = [k \in {"BOT_TOKEN", "token", "blank"} |-> IF k = "blank" THEN "" ELSE "v"]
    /\ Repos_plugins \in {Repos_sort(l) : l \in RepoLists}
    /\ core = [branch |-> "alpha", version |-> MaxCoreCount, count |-> MaxCoreCount,
               failed |-> FALSE]
    /\ sel_pc = "idle"
    /\ sel_i = 0
    /\ sel_n = 0
    /\ plugins = <<>>
    /\ producers = [n \in Names |-> {}]
    /\ overridden = 0
    /\ conflicts = {}
    /\ retained = <<>>
    /\ builtin = {}
    /\ tree = {[cat |-> "x", name |-> "r", repo |-> 0]}
    /\ LifeIdle
    /\ RpcIdle
    /\ AuxIdle

\* init_repos up to the repo loop: repos = 0, plugins = {}
StartInitRepos ==
    /\ sel_pc = "idle"
    /\ Len(Repos_plugins) > 0
    /\ sel_pc' = "scan"
    /\ sel_i' = 1
    /\ sel_n' = 0
    /\ plugins' = <<>>
    /\ producers' = [n \in Names |-> {}]
    /\ overridden' = 0
    /\ conflicts' = {}
    /\ retained' = <<>>
    /\ UNCHANGED <<environ, Repos_plugins, core, builtin, tree, lifeVars, rpcVars, auxVars>>

\* if repo.failed: continue
SkipFailedRepo ==
    /\ sel_pc = "scan"
    /\ sel_i <= Len(Repos_plugins)
    /\ Repos_plugins[sel_i].failed
    /\ sel_i' = sel_i + 1
    /\ UNCHANGED <<environ, Repos_plugins, core, sel_pc, sel_n, plugins,
                   producers, overridden, conflicts, retained, builtin, tree, lifeVars,
                   rpcVars, auxVars>>

\* repo.iter_plugins() is exhausted: the listing of this repo has no further
\* plugin directory (none at all when load_plugins left the list empty)
RepoDone ==
    /\ sel_pc = "scan"
    /\ sel_i <= Len(Repos_plugins)
    /\ ~Repos_plugins[sel_i].failed
    /\ sel_i' = sel_i + 1
    /\ UNCHANGED <<environ, Repos_plugins, core, sel_pc, sel_n, plugins,
                   producers, overridden, conflicts, retained, builtin, tree, lifeVars,
                   rpcVars, auxVars>>

\* One step of `for plg in repo.iter_plugins()`: the next plugin directory the
\* listing yields, in any order, checked and installed or ignored.
ScanPlugin ==
    /\ sel_pc = "scan"
    /\ sel_i <= Len(Repos_plugins)
    /\ ~Repos_plugins[sel_i].failed
    /\ sel_n < MaxPlugins
    /\ \E cat \in Cats, name \in Names, conf \in Configs :
        /\ LET repo == Repos_plugins[sel_i]
               kept == Reason(conf, name, core.count, get_client_type(environ), environ) = ""
               meets == MeetsPredicates(conf, core.count, get_client_type(environ), environ)
           IN  /\ plugins' = IF kept
                             THEN Install(plugins, Plugin(cat, name, conf, repo, meets))
                             ELSE plugins
               /\ producers' = IF kept THEN [producers EXCEPT ![name] = @ \cup {repo.id}]
                               ELSE producers
               /\ overridden' = IF kept /\ name \in DOMAIN plugins THEN overridden + 1
                                ELSE overridden
    /\ sel_n' = sel_n + 1
    /\ UNCHANGED <<environ, Repos_plugins, core, sel_pc, sel_i, conflicts, retained, builtin,
                   tree, lifeVars, rpcVars, auxVars>>

\* init_repos from the builtin removal to the copy. order: the dict's order; late:
\* the plugins whose dependency set yields their own name after the other names.
FinishInitRepos ==
    /\ sel_pc = "scan"
    /\ sel_i > Len(Repos_plugins)
    /\ \E listing \in BuiltinListings, cwd_dirs \in CwdDirSets,
          order \in Orders(DOMAIN plugins),
          late \in SUBSET {n \in DOMAIN plugins : n \in plugins[n].depends} :
        LET r == Select(plugins, get_plugins(listing, cwd_dirs), order, late)
        IN  /\ builtin' = listing
            /\ plugins' = r.plugins
            /\ sel_pc' = IF r.raised THEN "raised" ELSE "done"
            /\ tree' = IF r.raised THEN tree ELSE clean_plugins(tree) \cup Copied(r.plugins)
            /\ sig_repos' = IF r.raised THEN sig_repos ELSE Sig_make(sig_repos)
            /\ conflicts' = r.conflicts
            /\ retained' = r.retained
            /\ Requirements_data' = IF r.raised THEN Requirements_data
                                    ELSE Requirements_data \cup grab_requirements(r.plugins)
    /\ UNCHANGED <<environ, Repos_plugins, core, sel_i, sel_n, producers, overridden, pc,
                   sessionVars, storeVars, sig_core, src_tree, core_head, histVars,
                   rpcVars, auxVars>>

NextSel == StartInitRepos \/ SkipFailedRepo \/ RepoDone \/ ScanPlugin \/ FinishInitRepos

SpecSel == InitSel /\ [][NextSel]_vars

\* ------------------------------------------------------------------ claims on the selection
\* init_repos has finished its repo loop
ScanOver == (sel_pc = "scan" /\ sel_i > Len(Repos_plugins)) \/ sel_pc = "done"

\* the position of the repo of this id in the sorted repo list
PosOf(id) == CHOOSE k \in 1..Len(Repos_plugins) : Repos_plugins[k].id = id

\* C4: when init_repos reaches the copy step, every name a selected plugin depends
\* on is itself selected, after the first closure and after a conflict removal.
C4_DependsClosed ==
    sel_pc = "done" => \A n \in DOMAIN plugins : plugins[n].depends \subseteq DOMAIN plugins

\* C4 witness: the copy step is reached with a plugin that has dependencies kept
\* and a plugin that was installed by the scan removed.
C4_Witness ==
    /\ sel_pc = "done"
    /\ \E n \in DOMAIN plugins : plugins[n].depends # {}
    /\ \E m \in Names : producers[m] # {} /\ m \notin DOMAIN plugins

\* C5: the plugin selected under a name comes from the repo that is last in the
\* sorted repo list (and so of the largest priority number) among the repos that
\* shipped an eligible plugin of that name; once the scan is over every such name
\* has its entry.
C5_LaterRepoWins ==
    /\ \A n \in DOMAIN plugins : \A id \in producers[n] :
        /\ PosOf(id) <= PosOf(plugins[n].repo)
        /\ Repos_plugins[PosOf(id)].priority <= Repos_plugins[PosOf(plugins[n].repo)].priority
    /\ (sel_pc = "scan" /\ sel_i > Len(Repos_plugins)) =>
        \A n \in Names : producers[n] # {} => n \in DOMAIN plugins

\* C5 witness: both repos shipped an eligible plugin "a", the repo added second
\* sorts first, and the scan is over.
C5_Witness ==
    /\ sel_pc = "scan" /\ sel_i > Len(Repos_plugins)
    /\ producers["a"] = {0, 1}
    /\ Repos_plugins[1].id = 1
    /\ plugins["a"].repo = 0

\* C6: every plugin retained in the selection after init_repos met every
\* eligibility predicate: available is true, min_core (when set) <= core.count,
\* max_core (when set) >= core.count, client_type (when set) is the client
\* mode, every env is set and non-empty, every bin is on PATH.
C6_RetainedMeetPredicates ==
    sel_pc = "done" => \A n \in DOMAIN plugins : plugins[n].meets

\* C7: after init_repos no selected plugin has the name of a plugin directory
\* under the core's plugins/builtin.
C7_NoBuiltinSelected == sel_pc = "done" => DOMAIN plugins \cap builtin = {}

\* the plugins of a selection that declare this specifier
Declaring(plgs, req) == {n \in DOMAIN plgs : req \in plgs[n].packages}

\* the pass reached the copy with a plugin that required p>=2 and a plugin that
\* required p<=1 among the plugins the first dependency closure left
DisjointRanges ==
    /\ sel_pc = "done"
    /\ Declaring(retained, Req("p", ">=", 2)) # {}
    /\ Declaring(retained, Req("p", "<=", 1)) # {}

SameNameTwoRepos ==
    /\ sel_pc = "done"
    /\ sel_n = 2
    /\ producers["a"] = {0, 1}
    /\ Repos_plugins[1].priority # Repos_plugins[2].priority
    /\ "a" \in DOMAIN plugins

\* the priority of the repo the copied directory of plugin "a" came from
CopiedFrom == {Repos_plugins[PosOf(d.repo)].priority : d \in {e \in tree : e.name = "a"}}

\* C14 as stated: when two repos of different priority both ship the eligible
\* plugin, the directory copied comes from the repo of the lower priority number
\* and one override is logged.
C14_LowerNumberCopied ==
    SameNameTwoRepos =>
        /\ CopiedFrom = {Min({Repos_plugins[1].priority, Repos_plugins[2].priority})}
        /\ overridden = 1

\* C14 amended: when two repos of different priority both ship the eligible
\* plugin, the directory copied comes from the repo of the higher priority
\* number, which is scanned later, and one override is logged.
C14_HigherNumberCopied ==
    SameNameTwoRepos =>
        /\ CopiedFrom = {Max({Repos_plugins[1].priority, Repos_plugins[2].priority})}
        /\ overridden = 1

\* the repo added second has priority 0 and both repos shipped the plugin
C14_Witness ==
    /\ SameNameTwoRepos
    /\ Repos_plugins[1].id = 1
    /\ Repos_plugins[1].priority = 0
    /\ \E d \in tree : d.name = "a" /\ d.repo = 0

\* C20: when init_repos has materialised the selection, .sig_core and .sig_repos
\* exist and the plugin directories outside builtin are exactly the selected
\* plugins, each under its category and from its repo: no directory of an
\* earlier pass and none of a plugin the selection dropped is left.
C20_TreeIsSelection ==
    sel_pc = "done" =>
        /\ sig_core
        /\ sig_repos
        /\ \A d \in tree : /\ d.name \in DOMAIN plugins
                            /\ plugins[d.name].cat = d.cat
                            /\ plugins[d.name].repo = d.repo
        /\ \A n \in DOMAIN plugins : \E d \in tree : d.name = n
        /\ \A n \in Names : producers[n] # {} /\ n \notin DOMAIN plugins =>
                                ~\E d \in tree : d.name = n

\* a pass that started over the directory of an earlier pass copied one plugin
\* and dropped another that the scan had installed
C20_Witness ==
    /\ sel_pc = "done"
    /\ DOMAIN plugins # {}
    /\ \E n \in Names : producers[n] # {} /\ n \notin DOMAIN plugins
    /\ [cat |-> "x", name |-> "r", repo |-> 0] \notin tree

\* ---------------------------------------------------------------------------
\* The loader's lifecycle: load(), the pipeline of initialize(), run_userge()
\* and the jobs its RPC loop handles.  A commit of the core repository is named
\* by its commit count; version 0 is the empty string.

\* self._git.heads of the core repository once the remote was fetched
CoreHeads == <<"alpha", "beta">>

\* head.commit of a branch
HeadCommit(branch) == IF branch = "alpha" THEN MaxCoreCount ELSE 1

\* the versions self._git.commit() resolves
Commits == 1..MaxCoreCount

\* Repos._core before Repos.load()
NoCore == [branch |-> "", version |-> 0, count |-> 0, failed |-> TRUE]

\* _CoreRepo.parse: _git is None until init()
parse(branch, version) == [branch |-> branch, version |-> version, count |-> 0, failed |-> TRUE]

\* _BaseRepo.init: opens or clones the repository unless that was done
init(info, git_ok) == IF ~info.failed THEN info ELSE [info EXCEPT !.failed = ~git_ok]

_branch_exists(info, branch) == branch # "" /\ ~info.failed /\ branch \in Range(CoreHeads)

\* a _version_exists that does not look at self._git
VersionKnown(info, version) == version # 0 /\ version \in Commits

_version_exists(info, version) == version # 0 /\ ~info.failed /\ version \in Commits

\* a fetch that marks the info dirty only when the branch was reselected
fetch_branch_dirty(info, git_ok) ==
    IF info.failed THEN [info |-> info, changed |-> FALSE]
    ELSE IF ~git_ok THEN [info |-> [info EXCEPT !.failed = TRUE], changed |-> FALSE]
    ELSE LET branch == IF _branch_exists(info, info.branch) THEN info.branch ELSE CoreHeads[1]
             commit == IF info.version # 0 /\ info.version \in Commits THEN info.version ELSE 0
             version == IF commit = 0 THEN HeadCommit(branch) ELSE info.version
         IN  [info |-> [info EXCEPT !.branch = branch, !.version = version, !.count = version],
              changed |-> branch # info.branch]

\* _BaseRepo.fetch: the new info and whether branch or version was changed
fetch(info, git_ok) ==
    IF info.failed THEN [info |-> info, changed |-> FALSE]
    ELSE IF ~git_ok THEN [info |-> [info EXCEPT !.failed = TRUE], changed |-> FALSE]
    ELSE LET branch == IF _branch_exists(info, info.branch) THEN info.branch ELSE CoreHeads[1]
             commit == IF info.version # 0 /\ info.version \in Commits THEN info.version ELSE 0
             version == IF commit = 0 THEN HeadCommit(branch) ELSE info.version
         IN  [info |-> [info EXCEPT !.branch = branch, !.version = version, !.count = version],
              changed |-> branch # info.branch \/ commit = 0]

\* _CoreRepo._update: the document written to the Store
_update(info) == <<[branch |-> info.branch, version |-> info.version]>>

\* Session.restart that keeps _init as it is after the first pass
Session_restart_no_init(should_init) == [init |-> FALSE, restart |-> TRUE]

\* Session.restart that always asks for the pipeline
Session_restart_always_init(should_init) == [init |-> TRUE, restart |-> TRUE]

\* Session.restart: the new _init and _restart
Session_restart(should_init) == [init |-> should_init, restart |-> TRUE]

\* the repos of the Store's collection, parsed in order by _PluginsRepo.parse
ParseRepos(docs) ==
    [i \in 1..Len(docs) |->
        [id |-> i - 1, priority |-> docs[i].priority, url |-> docs[i].url, failed |-> TRUE]]

\* the plugin a repo of the lifecycle ships: one eligible plugin named after it
Ships(repo) == Plugin("x", IF repo.id = 0 THEN "a" ELSE "b", Plain, repo, TRUE)

RECURSIVE ScanUntilFailed(_, _, _)
\* a scan that ends at the first failed repo
ScanUntilFailed(list, k, plgs) ==
    IF k > Len(list) \/ list[k].failed THEN plgs
    ELSE ScanUntilFailed(list, k + 1, Install(plgs, Ships(list[k])))

RECURSIVE ScanRepos(_, _, _)
\* the repo loop of init_repos over the repos of the lifecycle: a failed repo is
\* skipped, the plugin of every other repo is installed
ScanRepos(list, k, plgs) ==
    IF k > Len(list) THEN plgs
    ELSE ScanRepos(list, k + 1, IF list[k].failed THEN plgs ELSE Install(plgs, Ships(list[k])))

Stages == {"load_repos", "init_core", "init_repos", "install_req"}

\* words of CUSTOM_PIP_PACKAGES
PipPackages == IF EnvTruthy(environ, "CUSTOM_PIP_PACKAGES") THEN {"pip_pkg"} ELSE {}

\* core.grab_req(): the words of the core's requirements.txt
grab_req == {"core_pkg"}

\* an error() that logs and returns to a caller that goes on to run_userge
error_ignored == "run_userge"

\* utils.error: SIGTERM to the loader itself.  Before run_userge the default
\* disposition ends the process; afterwards the handler of run_userge runs on a
\* closed Process object and its ValueError leaves load()
error == IF handlers THEN "crashed" ELSE "killed"

\* a fresh installation: empty cache directory, no core document in the Store
Init ==
    /\ environ \in {[BOT_TOKEN |-> "v", token |-> "v", blank |-> ""],
                    [BOT_TOKEN |-> "v", token |-> "v", blank |-> "",
                     CUSTOM_PIP_PACKAGES |-> "pip_pkg"]}
    /\ Repos_plugins = <<>>
    /\ core = NoCore
    /\ tree = {}
    /\ sel_pc = "idle" /\ sel_i = 0 /\ sel_n = 0 /\ plugins = <<>>
    /\ producers = [n \in Names |-> {}] /\ builtin = {}
    /\ overridden = 0 /\ conflicts = {} /\ retained = <<>>
    /\ pc = "load"
    /\ S_init = TRUE /\ S_restart = FALSE /\ proc = "none" /\ handlers = FALSE
    /\ p_p = "none"
    /\ loaded = FALSE /\ argv_reset = FALSE
    /\ store_core = <<>>
    /\ store_repos \in {<<>>, <<[priority |-> 5, url |-> "u0"]>>}
    /\ sig_core = FALSE /\ sig_repos = FALSE
    /\ Requirements_data = {} /\ src_tree = 0 /\ core_head = "branch"
    /\ restart_kind = "none" /\ cause = "none" /\ stages = {} /\ work = {} /\ runs = 0
    /\ RpcIdle
    /\ AuxIdle

\* __main__: the loader is started again after it ended, over the files and the
\* Store it left
ProcessStart ==
    /\ pc \in {"killed", "crashed", "returned"}
    /\ pc' = "load"
    /\ S_init' = TRUE /\ S_restart' = FALSE /\ proc' = "none" /\ handlers' = FALSE
    /\ p_p' = "none"
    /\ loaded' = FALSE /\ argv_reset' \in BOOLEAN
    /\ core' = NoCore /\ Repos_plugins' = <<>> /\ Requirements_data' = {}
    /\ restart_kind' = "none" /\ cause' = "none" /\ stages' = {} /\ work' = {}
    /\ runs' = IF argv_reset' THEN 0 ELSE runs
    /\ UNCHANGED <<environ, tree, selVars, rpcVars, auxVars, store_core, store_repos, sig_core, sig_repos,
                   src_tree, core_head>>

\* load(): Session.should_init() decides between initialize() and run_userge()
Load ==
    /\ pc = "load"
    /\ S_init' = FALSE
    /\ pc' = IF S_init THEN "load_repos" ELSE "run_userge"
    /\ work' = IF S_init THEN {} ELSE work
    /\ UNCHANGED <<environ, Repos_plugins, core, tree, selVars, rpcVars, auxVars, S_restart, proc, handlers, p_p,
                   storeVars, fileVars, restart_kind, cause, stages, runs>>

\* load_repos(): Repos.load() reads the Store once per process
LoadRepos ==
    /\ pc = "load_repos"
    /\ pc' = "fetch_core"
    /\ stages' = stages \cup {"load_repos"}
    /\ loaded' = TRUE
    /\ IF loaded THEN UNCHANGED <<core, Repos_plugins>>
       ELSE /\ core' = IF store_core # <<>> /\ ~argv_reset
                       THEN parse(store_core[1].branch, store_core[1].version)
                       ELSE parse("alpha", 0)
            /\ Repos_plugins' = Repos_sort(ParseRepos(store_repos))
    /\ UNCHANGED <<environ, tree, selVars, rpcVars, auxVars, sessionVars, argv_reset, store_core, store_repos,
                   fileVars, restart_kind, cause, work, runs>>

\* what fetch_core() does to the core, the Store and the working copy
FetchCoreEffect ==
    \E git_ok \in BOOLEAN :
        LET r == fetch(init(core, git_ok), git_ok)
        IN  /\ core' = r.info
            /\ store_core' = IF r.changed THEN _update(r.info) ELSE store_core
            /\ core_head' = IF r.info.failed THEN core_head ELSE "branch"

\* init_core(), line 153: fetch_core()
FetchCoreStage ==
    /\ pc = "fetch_core"
    /\ pc' = "init_core"
    /\ FetchCoreEffect
    /\ UNCHANGED <<environ, Repos_plugins, tree, selVars, rpcVars, auxVars, sessionVars, loaded, argv_reset,
                   store_repos, sig_core, sig_repos, Requirements_data, src_tree, histVars>>

\* utils.clean_core: rmtree("userge") takes the plugin directories with it
clean_core(t) == {}

\* an init_core that makes the core sentinel and leaves the repos sentinel
init_core_core_only(core_sig, repos_sig) ==
    [core |-> Sig_make(core_sig), repos |-> repos_sig]

\* init_core(), lines 172-173: Sig.repos_remove(); Sig.core_make()
init_core_sentinels(core_sig, repos_sig) ==
    [core |-> Sig_make(core_sig), repos |-> Sig_remove(repos_sig)]

\* init_core(), from line 154
InitCore ==
    /\ pc = "init_core"
    /\ IF sig_core
       THEN /\ pc' = "fetch_repos"
            /\ stages' = stages \cup {"init_core"}
            /\ UNCHANGED <<tree, fileVars, work>>
       ELSE IF core.failed
       THEN /\ pc' = error
            /\ UNCHANGED <<tree, fileVars, stages, work>>
       ELSE \E copy_ok \in BOOLEAN :
            /\ tree' = clean_core(tree)
            /\ Requirements_data' = Requirements_data \cup grab_req
            /\ work' = work \cup {"core"}
            /\ IF copy_ok
               THEN /\ src_tree' = core.version
                    /\ core_head' = "branch"
                    /\ sig_repos' = init_core_sentinels(sig_core, sig_repos).repos
                    /\ sig_core' = init_core_sentinels(sig_core, sig_repos).core
                    /\ pc' = "fetch_repos"
                    /\ stages' = stages \cup {"init_core"}
               ELSE /\ src_tree' = 0
                    /\ core_head' = IF core.version = HeadCommit(core.branch)
                                    THEN "branch" ELSE "detached"
                    /\ pc' = error
                    /\ UNCHANGED <<sig_core, sig_repos, stages>>
    /\ UNCHANGED <<environ, Repos_plugins, core, selVars, rpcVars, auxVars, sessionVars, storeVars,
                   restart_kind, cause, runs>>

\* init_repos(), line 179: fetch_repos()
FetchReposStage ==
    /\ pc = "fetch_repos"
    /\ pc' = "init_repos"
    /\ \E ok \in [DOMAIN Repos_plugins -> BOOLEAN] :
           Repos_plugins' = [i \in DOMAIN Repos_plugins |->
                                [Repos_plugins[i] EXCEPT !.failed = ~ok[i]]]
    /\ UNCHANGED <<environ, core, tree, selVars, rpcVars, auxVars, sessionVars, storeVars, fileVars, histVars>>

\* init_repos(), from line 180
InitRepos ==
    /\ pc = "init_repos"
    /\ pc' = "install_req"
    /\ stages' = stages \cup {"init_repos"}
    /\ IF Len(Repos_plugins) = 0 \/ sig_repos
       THEN UNCHANGED <<tree, sig_repos, work>>
       ELSE LET scanned == ScanRepos(Repos_plugins, 1, <<>>)
                order == CHOOSE o \in Orders(DOMAIN scanned) : TRUE
            IN  /\ tree' = clean_plugins(tree) \cup Copied(Select(scanned, {}, order, {}).plugins)
                /\ sig_repos' = Sig_make(sig_repos)
                /\ work' = work \cup {"plugins"}
    /\ UNCHANGED <<environ, Repos_plugins, core, selVars, rpcVars, auxVars, sessionVars, storeVars, sig_core,
                   Requirements_data, src_tree, core_head, restart_kind, cause, runs>>

\* install_req(), and with it the end of run_loader()
InstallReq ==
    /\ pc = "install_req"
    /\ Requirements_data' = {}
    /\ IF Requirements_data \cup PipPackages = {}
       THEN /\ pc' = "run_userge"
            /\ stages' = stages \cup {"install_req"}
            /\ runs' = IF runs < 2 THEN runs + 1 ELSE 2
            /\ UNCHANGED work
       ELSE \E code \in {0, 1} :
            /\ work' = work \cup {"install"}
            /\ IF code = 0
               THEN /\ pc' = "run_userge"
                    /\ stages' = stages \cup {"install_req"}
                    /\ runs' = IF runs < 2 THEN runs + 1 ELSE 2
               ELSE /\ pc' = error
                    /\ UNCHANGED <<stages, runs>>
    /\ UNCHANGED <<environ, Repos_plugins, core, tree, selVars, rpcVars, auxVars, sessionVars, storeVars,
                   sig_core, sig_repos, src_tree, core_head, restart_kind, cause>>

\* run_userge(), lines 367-379: the child is spawned and the handlers installed
RunUserge ==
    /\ pc = "run_userge"
    /\ pc' = "rpc"
    /\ proc' = "alive"
    /\ handlers' = TRUE
    /\ p_p' = "open"
    /\ cause' = restart_kind
    /\ restart_kind' = "none"
    /\ UNCHANGED <<environ, Repos_plugins, core, tree, selVars, rpcVars, auxVars, S_init, S_restart, storeVars,
                   fileVars, stages, work, runs>>

\* the RPC loop receives a job of the child, handles it and sends the result
InLoop == pc = "rpc" /\ proc = "alive"

\* jobs 1 and 2: Session.restart(should_init)
Restart(should_init) ==
    /\ InLoop
    /\ S_init' = Session_restart(should_init).init
    /\ S_restart' = Session_restart(should_init).restart
    /\ proc' = "terminated"
    /\ restart_kind' = IF should_init THEN "hard" ELSE "soft"
    /\ UNCHANGED <<environ, Repos_plugins, core, tree, selVars, rpcVars, auxVars, pc, handlers, p_p, storeVars,
                   fileVars, cause, stages, work, runs>>

restart_soft == Restart(FALSE)

restart_hard == Restart(TRUE)

\* job 3: fetch_core()
fetch_core ==
    /\ InLoop
    /\ FetchCoreEffect
    /\ runs' = 0
    /\ UNCHANGED <<environ, Repos_plugins, tree, selVars, rpcVars, auxVars, pc, sessionVars, loaded, argv_reset,
                   store_repos, sig_core, sig_repos, Requirements_data, src_tree,
                   restart_kind, cause, stages, work>>

\* job 13: set_core_branch(branch)
set_core_branch ==
    /\ InLoop
    /\ \E branch \in {"alpha", "beta", "gone"} :
           IF core.branch # branch /\ _branch_exists(core, branch)
           THEN /\ core' = [core EXCEPT !.branch = branch, !.version = 0]
                /\ store_core' = _update(core')
                /\ sig_core' = Sig_remove(sig_core)
           ELSE UNCHANGED <<core, store_core, sig_core>>
    /\ runs' = 0
    /\ UNCHANGED <<environ, Repos_plugins, tree, selVars, rpcVars, auxVars, pc, sessionVars, loaded, argv_reset,
                   store_repos, sig_repos, Requirements_data, src_tree, core_head,
                   restart_kind, cause, stages, work>>

\* job 14: set_core_version(version)
set_core_version ==
    /\ InLoop
    /\ \E version \in 0..(MaxCoreCount + 1) :
           IF core.version # version /\ _version_exists(core, version)
           THEN /\ core' = [core EXCEPT !.version = version]
                /\ store_core' = _update(core')
                /\ sig_core' = Sig_remove(sig_core)
           ELSE UNCHANGED <<core, store_core, sig_core>>
    /\ runs' = 0
    /\ UNCHANGED <<environ, Repos_plugins, tree, selVars, rpcVars, auxVars, pc, sessionVars, loaded, argv_reset,
                   store_repos, sig_repos, Requirements_data, src_tree, core_head,
                   restart_kind, cause, stages, work>>

\* the child process ends: by itself, or after terminate()
ChildExits ==
    /\ proc \in {"alive", "terminated"}
    /\ proc' = "dead"
    /\ UNCHANGED <<environ, Repos_plugins, core, tree, selVars, rpcVars, auxVars, pc, S_init, S_restart,
                   handlers, p_p, storeVars, fileVars, histVars>>

\* a handler that closes the pipe and leaves the child alone
handle_close_only(pipe, child) == [p_p |-> "closed", proc |-> child]

\* run_userge.handle: p_p.close(); p.terminate()
handle(pipe, child) ==
    [p_p |-> "closed", proc |-> IF child = "alive" THEN "terminated" ELSE child]

\* SIGINT, SIGTERM or SIGABRT reaches the loader
Signal ==
    /\ pc \notin {"killed", "crashed", "returned"}
    /\ IF ~handlers THEN pc' = "killed" /\ UNCHANGED <<proc, p_p>>
       ELSE IF pc = "rpc"
       THEN /\ p_p' = handle(p_p, proc).p_p
            /\ proc' = handle(p_p, proc).proc
            /\ UNCHANGED pc
       ELSE pc' = "crashed" /\ UNCHANGED <<proc, p_p>>
    /\ UNCHANGED <<environ, Repos_plugins, core, tree, selVars, rpcVars, auxVars, S_init, S_restart, handlers,
                   storeVars, fileVars, histVars>>

\* a run_userge that leaves its loop without p.join() and p.close()
RpcExitNoJoin ==
    /\ pc = "rpc"
    /\ proc \in {"terminated", "dead"}
    /\ p_p' = "closed"
    /\ pc' = "after"
    /\ stages' = {}
    /\ UNCHANGED <<environ, Repos_plugins, core, tree, selVars, rpcVars, auxVars, S_init, S_restart, handlers,
                   proc, storeVars, fileVars, restart_kind, cause, work, runs>>

\* run_userge(), lines 381-387: the loop ends with the child, the pipe is
\* closed, the child joined and its Process object closed
RpcExit ==
    /\ pc = "rpc"
    /\ proc = "dead"
    /\ proc' = "closed"
    /\ p_p' = "closed"
    /\ pc' = "after"
    /\ stages' = {}
    /\ UNCHANGED <<environ, Repos_plugins, core, tree, selVars, rpcVars, auxVars, S_init, S_restart, handlers,
                   storeVars, fileVars, restart_kind, cause, work, runs>>

\* a should_restart that leaves the flag as it is
should_restart_keep(restart) == [value |-> restart, restart |-> restart]

\* Session.should_restart: the value returned and the new _restart
should_restart(restart) == [value |-> restart, restart |-> FALSE]

\* load(), lines 400-401: Session.should_restart()
ShouldRestart ==
    /\ pc = "after"
    /\ S_restart' = should_restart(S_restart).restart
    /\ pc' = IF should_restart(S_restart).value THEN "load" ELSE "returned"
    /\ UNCHANGED <<environ, Repos_plugins, core, tree, selVars, rpcVars, auxVars, S_init, proc, handlers, p_p,
                   storeVars, fileVars, histVars>>

Next ==
    \/ ProcessStart
    \/ Load
    \/ LoadRepos
    \/ FetchCoreStage
    \/ InitCore
    \/ FetchReposStage
    \/ InitRepos
    \/ InstallReq
    \/ RunUserge
    \/ restart_soft
    \/ restart_hard
    \/ fetch_core
    \/ set_core_branch
    \/ set_core_version
    \/ ChildExits
    \/ Signal
    \/ RpcExit
    \/ ShouldRestart

Spec == Init /\ [][Next]_vars

\* the loader's main thread keeps running load() and run_userge(), and a child
\* that was sent SIGTERM ends
FairSpec ==
    /\ Spec
    /\ WF_vars(proc = "terminated" /\ ChildExits)
    /\ WF_vars(RpcExit)
    /\ WF_vars(ShouldRestart)
    /\ WF_vars(Load)
    /\ WF_vars(RunUserge)

\* the loader process was ended by a signal or an exception
Ended == pc \in {"killed", "crashed"}

\* ---------------------------------------------------------------------------
\* Claims about the lifecycle, checked under Spec and FairSpec

\* C2: once job 2 (hard restart) is handled, the child is terminated and the
\* session flags are should_init = true and should_restart = true until load()
\* consumes them; the child spawned next runs only after every stage of the
\* pipeline ran again since the previous child ended; and unless a signal or
\* an exception ends the loader, the RPC loop exits and load() starts the
\* pipeline again.
C2_HardRestart ==
    /\ []((restart_kind = "hard" /\ pc \in {"rpc", "after"})
              => (S_init /\ S_restart /\ proc \in {"terminated", "dead", "closed"}))
    /\ []((cause = "hard" /\ pc = "rpc") => stages = Stages)
    /\ (restart_kind = "hard" /\ pc = "rpc") ~> (pc = "load_repos" \/ Ended)

C2_Witness == cause = "hard" /\ pc = "rpc" /\ proc = "alive" /\ stages = Stages

\* C3: once job 1 (soft restart) is handled, the child is terminated and the
\* flags are should_init = false and should_restart = true; no stage of the
\* pipeline runs before the next child is spawned, also when a sentinel was
\* removed before the restart; until then the sentinels, the repos, the Store
\* and both trees stay as they were; and unless a signal ends the loader, a
\* new child is spawned.
C3_SoftRestart ==
    /\ [](/\ (restart_kind = "soft" /\ pc \in {"rpc", "after"})
                 => (~S_init /\ S_restart /\ proc \in {"terminated", "dead", "closed"})
          /\ (cause = "soft" /\ pc = "rpc") => stages = {})
    /\ [][(restart_kind = "soft" /\ pc \in {"rpc", "after", "load", "run_userge"})
              => UNCHANGED <<sig_core, sig_repos, core, Repos_plugins, store_core,
                             store_repos, src_tree, tree>>]_vars
    /\ (restart_kind = "soft" /\ pc = "rpc")
           ~> ((cause = "soft" /\ pc = "rpc" /\ proc = "alive") \/ Ended)

C3_Witness == cause = "soft" /\ pc = "rpc" /\ proc = "alive" /\ stages = {} /\ ~sig_core

\* C8: whenever init_core returns normally the core sentinel exists, and the
\* sentinel is created only by init_core's last step, when the core is not
\* failed, its pinned version has been copied to the child tree and the
\* working copy is back on its branch.
C8_CoreSentinel ==
    /\ [](pc = "fetch_repos" => sig_core)
    /\ [][(~sig_core /\ sig_core')
              => (/\ pc = "init_core" /\ pc' = "fetch_repos"
                  /\ ~core.failed
                  /\ src_tree' = core.version
                  /\ core_head' = "branch")]_vars

C8_Witness == pc = "fetch_repos" /\ sig_core /\ "core" \in work /\ src_tree = core.version

\* C9: right after fetch_core, set_core_branch or set_core_version has changed
\* the core's tracked branch or pinned version, the core sentinel does not
\* exist.
C9_ChangeDropsCoreSentinel ==
    [][(/\ loaded /\ loaded'
        /\ (core'.branch # core.branch \/ core'.version # core.version))
           => ~sig_core']_vars

\* C10: when run_loader has completed and runs again with no job but a restart
\* and no reset in between, the second pass ends with both sentinels existing
\* and has wiped or copied no tree, selected no plugins and installed nothing.
C10_SecondPassIdle ==
    (pc = "run_userge" /\ runs = 2) => (sig_core /\ sig_repos /\ work = {})

\* C28 as stated: no reachable state has .sig_repos existing while .sig_core
\* does not.
C28_ReposSentinelImpliesCore == sig_repos => sig_core

\* C28, amended: the step of init_core that makes the core sentinel leaves the
\* repos sentinel absent, and a pass that materialised the core and has plugin
\* repos has materialised the plugins too when it reaches run_userge; between
\* a set_core_branch or set_core_version and that step .sig_repos may exist
\* while .sig_core does not.
C28_CoreDropsReposSentinel ==
    /\ [][(~sig_core /\ sig_core') => ~sig_repos']_vars
    /\ []((pc = "run_userge" /\ "core" \in work /\ Repos_plugins # <<>>)
              => "plugins" \in work)

\* a later pass materialised the core of a loader that has a plugin repo
C28_Witness ==
    /\ pc = "fetch_repos"
    /\ cause # "none"
    /\ "core" \in work
    /\ Repos_plugins # <<>>
    /\ ~sig_repos

\* C29: when init_core runs without core sentinel on a core handle that
\* failed, the loader ends in that step - killed by its own SIGTERM on the first
\* pass, by the exception of run_userge's handler on a pass after a hard
\* restart - with the core tree and the sentinels as they were, and no child
\* is spawned by a loader that ended.
C29_FailedCoreEndsLoader ==
    /\ [][(pc = "init_core" /\ ~sig_core /\ core.failed)
              => (/\ pc' = (IF handlers THEN "crashed" ELSE "killed")
                  /\ src_tree' = src_tree
                  /\ ~sig_core'
                  /\ sig_repos' = sig_repos
                  /\ proc' = proc)]_vars
    /\ [][Ended => proc' # "alive"]_vars

\* the pass after a hard restart ended in init_core on a failed core handle
C29_Witness ==
    /\ pc = "crashed"
    /\ handlers
    /\ restart_kind = "hard"
    /\ stages = {"load_repos"}
    /\ core.failed
    /\ ~sig_core
    /\ proc = "closed"

\* the loader is inside run_loader() or about to spawn the child
InPipeline ==
    pc \in {"load_repos", "fetch_core", "init_core", "fetch_repos", "init_repos",
            "install_req", "run_userge"}

\* C25: no step of the pipeline (the wipe and copy of init_core and init_repos,
\* the package installation) runs while a child process exists that has not
\* been joined, and a child is started only when there is none or the previous
\* one has been joined and closed.
C25_NoChildInPipeline ==
    /\ [](InPipeline => proc \in {"none", "closed"})
    /\ [][(work' # work \/ tree' # tree \/ src_tree' # src_tree)
              => proc \in {"none", "closed"}]_vars
    /\ [][(proc # "alive" /\ proc' = "alive") => proc \in {"none", "closed"}]_vars

\* a pass after a hard restart has materialised the core again, the first
\* child joined and closed
C25_Witness ==
    /\ pc = "fetch_repos"
    /\ cause = "hard"
    /\ proc = "closed"
    /\ "core" \in work

\* ---------------------------------------------------------------------------
\* The child's transport (connection.py) against the loop of run_userge

MaxCalls == 3

\* the frames the callers of this specification send, (job, *args): get_core,
\* get_repos, a job with no handler, and remove_repo without its repo_id
RpcFrames == {<<5>>, <<6>>, <<18>>, <<8>>}

\* the jobs methods.py registers a handler for
RegisteredJobs == (1..17) \cup {22, 23, 24}

\* the number of arguments the handler of a job takes
Arity(job) ==
    IF job \in {1, 2, 3, 4, 5, 6, 9, 22} THEN 0
    ELSE IF job \in {8, 10, 11, 13, 14, 24} THEN 1
    ELSE IF job \in {12, 15, 16, 17, 23} THEN 2
    ELSE 3

\* a Tasks.handle without its except clauses: the exception leaves handle
Tasks_handle_raising(frame) ==
    IF frame[1] \in RegisteredJobs /\ Len(frame) - 1 = Arity(frame[1])
    THEN <<"result", frame[1]>>
    ELSE <<"raise", frame[1]>>

\* Tasks.handle(job, *arg): the handler's result, the KeyError made for a job
\* with no handler, or the exception the call raised (TypeError for a wrong
\* number of arguments), each returned as a value
Tasks_handle(frame) ==
    IF frame[1] \notin RegisteredJobs THEN <<"KeyError", frame[1]>>
    ELSE IF Len(frame) - 1 # Arity(frame[1]) THEN <<"TypeError", frame[1]>>
    ELSE <<"result", frame[1]>>

\* a _recv that hands an exception to its caller as the value of the call
recv_returns(result) == [raised |-> FALSE, value |-> result]

\* _recv: an exception that was received is raised, anything else returned
_recv(result) ==
    IF result[1] = "result" THEN [raised |-> FALSE, value |-> result]
    ELSE [raised |-> TRUE, value |-> <<>>]

\* a lock that never makes a caller wait
LockNeverHeld(holder) == TRUE

\* threading.Lock: acquire() goes through when nobody holds the lock
LockFree(holder) == holder = "none"

\* the coroutines run on the one thread of the event loop
OnLoop(c) == c \in {"co1", "co2"}

\* the caller runs on the loop's thread and has not reached an await
HasLoop(c) ==
    /\ OnLoop(c)
    /\ \/ callers[c].pc \in {"lock", "send"}
       \/ callers[c].mode = "sync" /\ callers[c].pc = "wait"

\* the caller's thread can run it
CanStep(c) == OnLoop(c) => \A d \in Callers \ {c} : ~HasLoop(d)

Started == Len(sent) + Cardinality({c \in Callers : callers[c].pc \in {"a_lock", "lock", "send"}})

LifeRunning ==
    /\ pc = "rpc" /\ S_init = FALSE /\ S_restart = FALSE /\ proc = "alive" /\ handlers = TRUE
    /\ p_p = "open"
    /\ loaded = TRUE /\ argv_reset = FALSE /\ sig_core = TRUE /\ sig_repos = FALSE
    /\ store_core = <<>> /\ store_repos = <<>> /\ Requirements_data = {}
    /\ src_tree = 1 /\ core_head = "branch" /\ restart_kind = "none" /\ cause = "none"
    /\ stages = Stages /\ work = {} /\ runs = 1

InitRpc ==
    /\ environ = [BOT_TOKEN |-> "v"]
    /\ Repos_plugins = <<>>
    /\ core = [branch |-> "alpha", version |-> 1, count |-> 1, failed |-> FALSE]
    /\ tree = {}
    /\ sel_pc = "idle" /\ sel_i = 0 /\ sel_n = 0 /\ plugins = <<>>
    /\ producers = [n \in Names |-> {}] /\ builtin = {}
    /\ overridden = 0 /\ conflicts = {} /\ retained = <<>>
    /\ LifeRunning
    /\ RpcIdle
    /\ AuxIdle

\* a caller enters send_and_wait (mode "sync") or send_and_async_wait ("async");
\* the coroutines of the event loop have ended when the atexit handlers run
Call(c) ==
    /\ callers[c].pc = "idle"
    /\ CanStep(c)
    /\ conn = "closed" => ~OnLoop(c)
    /\ Started < MaxCalls
    /\ \E mode \in (IF OnLoop(c) THEN {"sync", "async"} ELSE {"sync"}), frame \in RpcFrames :
           callers' = [callers EXCEPT ![c] = [pc |-> IF mode = "async" THEN "a_lock" ELSE "lock",
                                              mode |-> mode, frame |-> frame, out |-> "none"]]
    /\ UNCHANGED <<c2p, p2c, lock, a_lock, served, sent, received, conn>>

\* async with _A_LOCK
AcquireALock(c) ==
    /\ callers[c].pc = "a_lock"
    /\ CanStep(c)
    /\ a_lock = "none"
    /\ a_lock' = c
    /\ callers' = [callers EXCEPT ![c].pc = "lock"]
    /\ UNCHANGED <<c2p, p2c, lock, served, sent, received, conn>>

\* with _LOCK
AcquireLock(c) ==
    /\ callers[c].pc = "lock"
    /\ LockFree(lock)
    /\ lock' = c
    /\ callers' = [callers EXCEPT ![c].pc = "send"]
    /\ UNCHANGED <<c2p, p2c, a_lock, served, sent, received, conn>>

\* _send: _poll() raises when _Conn.get() finds the connection closed, _send
\* raises when a reply is already waiting, else the frame is written
Send(c) ==
    /\ callers[c].pc = "send"
    /\ IF conn = "closed" \/ p2c # <<>>
       THEN /\ callers' = [callers EXCEPT ![c].pc = "idle", ![c].out = "raised"]
            /\ lock' = "none"
            /\ a_lock' = IF callers[c].mode = "async" THEN "none" ELSE a_lock
            /\ UNCHANGED <<c2p, sent>>
       ELSE /\ c2p' = Append(c2p, callers[c].frame)
            /\ sent' = Append(sent, [by |-> c, frame |-> callers[c].frame])
            /\ callers' = [callers EXCEPT ![c].pc = "wait"]
            /\ UNCHANGED <<lock, a_lock>>
    /\ UNCHANGED <<p2c, served, received, conn>>

\* _recv, once a reply is there: blocking in send_and_wait, after a poll that
\* succeeded in send_and_async_wait; the locks are released on the way out
Recv(c) ==
    /\ callers[c].pc = "wait"
    /\ callers[c].mode = "async" => CanStep(c)
    /\ conn = "open"
    /\ p2c # <<>>
    /\ p2c' = Tail(p2c)
    /\ received' = Append(received, [by |-> c, reply |-> Head(p2c), out |-> _recv(Head(p2c))])
    /\ callers' = [callers EXCEPT ![c].pc = "idle",
                                  ![c].out = IF _recv(Head(p2c)).raised THEN "raised" ELSE "returned"]
    /\ lock' = "none"
    /\ a_lock' = IF callers[c].mode = "async" THEN "none" ELSE a_lock
    /\ UNCHANGED <<c2p, served, sent, conn>>

\* _close, registered with atexit: it runs when the interpreter shuts down,
\* after the main thread and the threads it joins have ended their calls
_close ==
    /\ conn = "open"
    /\ \A c \in Callers : callers[c].pc = "idle"
    /\ conn' = "closed"
    /\ UNCHANGED <<c2p, p2c, lock, a_lock, callers, served, sent, received>>

\* run_userge, line 383: Tasks.handle(*p_p.recv())
\* an exception that left handle would leave run_userge and load()
LoopRecv ==
    /\ pc = "rpc"
    /\ served = <<>>
    /\ c2p # <<>>
    /\ c2p' = Tail(c2p)
    /\ LET result == Tasks_handle(Head(c2p))
       IN  IF result[1] = "raise"
           THEN pc' = "crashed" /\ UNCHANGED served
           ELSE served' = <<result>> /\ UNCHANGED pc
    /\ UNCHANGED <<p2c, lock, a_lock, callers, sent, received, conn>>

\* run_userge, line 383: p_p.send(result)
LoopSend ==
    /\ pc = "rpc"
    /\ served # <<>>
    /\ p2c' = Append(p2c, served[1])
    /\ served' = <<>>
    /\ UNCHANGED <<pc, c2p, lock, a_lock, callers, sent, received, conn>>

NextRpc ==
    /\ \/ \E c \in Callers : Call(c) /\ UNCHANGED pc
       \/ \E c \in Callers : AcquireALock(c) /\ UNCHANGED pc
       \/ \E c \in Callers : AcquireLock(c) /\ UNCHANGED pc
       \/ \E c \in Callers : Send(c) /\ UNCHANGED pc
       \/ \E c \in Callers : Recv(c) /\ UNCHANGED pc
       \/ _close /\ UNCHANGED pc
       \/ LoopRecv
       \/ LoopSend
    /\ UNCHANGED <<environ, Repos_plugins, core, tree, selVars, sessionVars, storeVars,
                   fileVars, histVars, auxVars>>

SpecRpc == InitRpc /\ [][NextRpc]_vars

\* C1: the k-th reply the child receives is Tasks.handle of the k-th frame it
\* sent and is received by the caller that sent that frame; and at any time at
\* most one request is sent and not yet answered to its caller.
C1_Pairing ==
    /\ Len(received) <= Len(sent)
    /\ \A k \in 1..Len(received) :
           /\ received[k].reply = Tasks_handle(sent[k].frame)
           /\ received[k].by = sent[k].by
    /\ Len(sent) - Len(received) <= 1
    /\ Len(c2p) + Len(served) + Len(p2c) <= 1

C1_Witness ==
    /\ Len(received) = MaxCalls
    /\ \E j, k \in 1..MaxCalls : sent[j].by # sent[k].by /\ sent[j].frame # sent[k].frame

\* C22: every job code of job.py, the constraint jobs 18 to 21 included, has a
\* registered handler: no frame the child sends is answered with the KeyError
\* Tasks.handle makes for a job without handler.
C22_EveryJobHandled ==
    \A k \in 1..Len(received) : received[k].reply[1] # "KeyError"

\* ---------------------------------------------------------------------------
\* The jobs that edit the repo list and the environment, handled by the RPC
\* loop of a loader whose last pipeline pass completed.  A repo is projected to
\* its id, priority and url; "u0" and "u1" stand for two URLs of the accepted
\* form https://github.com/<owner>/<name>, "ftp" for ftp://example/x.

MaxRepoIds == 2

Urls == {"u0", "u1", "ftp"}

\* "u0t" stands for the URL of "u0" with an access token,
\* https://ghp_<token>@github.com/<owner>/<name>
TokenUrls == {"u0t"}

\* a pattern that every url matches
MatchesAll(url) == url \in Urls \cup TokenUrls

\* Repos._RE_REPO.match(url)
RE_REPO_match(url) == url \in {"u0", "u1", "u0t"}

\* _BaseRepo.gen_path: the last two segments of the url, <owner>.<name>
gen_path(url) == IF url \in {"u0", "u0t"} THEN "o0.n0" ELSE IF url = "u1" THEN "o1.n1" ELSE "example.x"

\* Repos.get(url) and Repos.get(id): the positions of the repos found
GetByUrl(list, url) == {i \in DOMAIN list : list[i].url = url}

GetById(list, id) == {i \in DOMAIN list : list[i].id = id}

\* a removal that always takes the first element
RemoveFirst(seq, i) == [j \in 1..(Len(seq) - 1) |-> seq[j + 1]]

\* list.remove, delete_one: the sequence without its element at position i
RemoveAt(seq, i) == [j \in 1..(Len(seq) - 1) |-> IF j < i THEN seq[j] ELSE seq[j + 1]]

\* a write that keeps the value of a key the dict already has
PutIfAbsent(d, key, value) ==
    [k \in DOMAIN d \cup {key} |-> IF k \in DOMAIN d THEN d[k] ELSE value]

\* d[key] = value on a dict
Put(d, key, value) == [k \in DOMAIN d \cup {key} |-> IF k = key THEN value ELSE d[k]]

\* del d[key] on a dict that has the key
Drop(d, key) == [k \in DOMAIN d \ {key} |-> d[k]]

EnvKeys == {"FOO", "BOT_TOKEN"}

EnvValues == {"bar", "baz"}

\* the record kept of the job handled last
Job(name) ==
    [job |-> name, key |-> "", value |-> "", old |-> "", url |-> "", id |-> -1, ok |-> FALSE,
     had |-> FALSE, mem |-> Repos_plugins, store |-> store_repos, sig |-> sig_repos,
     calls |-> 0, undo |-> FALSE, reply |-> "None"]

InitJobs ==
    /\ environ \in {[BOT_TOKEN |-> "v"], [BOT_TOKEN |-> "v", FOO |-> ""]}
    /\ store_repos \in {<<>>, <<[priority |-> 5, url |-> "u0"]>>}
    /\ Repos_plugins = [i \in DOMAIN store_repos |->
                           [ParseRepos(store_repos)[i] EXCEPT !.failed = FALSE]]
    /\ counter = Len(store_repos)
    /\ sig_repos = (Len(store_repos) > 0)
    /\ core = [branch |-> "alpha", version |-> 1, count |-> 1, failed |-> FALSE]
    /\ tree = {}
    /\ sel_pc = "idle" /\ sel_i = 0 /\ sel_n = 0 /\ plugins = <<>>
    /\ producers = [n \in Names |-> {}] /\ builtin = {}
    /\ overridden = 0 /\ conflicts = {} /\ retained = <<>>
    /\ pc = "rpc" /\ S_init = FALSE /\ S_restart = FALSE /\ proc = "alive" /\ handlers = TRUE
    /\ p_p = "open"
    /\ loaded = TRUE /\ argv_reset = FALSE /\ sig_core = TRUE
    /\ store_core = <<>> /\ Requirements_data = {}
    /\ src_tree = 1 /\ core_head = "branch" /\ restart_kind = "none" /\ cause = "none"
    /\ stages = Stages /\ work = {} /\ runs = 1
    /\ RpcIdle
    /\ conf_tmp = <<>> /\ last = NoJob /\ git_error = <<>> /\ git_head = <<>> /\ ret = <<>>
    /\ ConstIdle

\* job 7: add_repo(priority, branch, url) -> Repos.add, for a url of urls
AddRepo(urls) ==
    /\ InLoop
    /\ \E priority \in Priorities, url \in urls :
        IF ~RE_REPO_match(url) \/ GetByUrl(Repos_plugins, url) # {}
        THEN /\ last' = [Job("add_repo") EXCEPT !.url = url]
             /\ UNCHANGED <<Repos_plugins, store_repos, sig_repos, counter>>
        ELSE /\ counter < MaxRepoIds
             /\ Repos_plugins' = Repos_sort(Append(Repos_plugins,
                    [id |-> counter, priority |-> priority, url |-> url, failed |-> TRUE]))
             /\ counter' = counter + 1
             /\ store_repos' = Append(store_repos, [priority |-> priority, url |-> url])
             /\ sig_repos' = Sig_remove(sig_repos)
             /\ last' = [Job("add_repo") EXCEPT !.url = url, !.id = counter, !.ok = TRUE,
                                              !.calls = 1]
    /\ UNCHANGED <<environ, core, tree, selVars, pc, sessionVars, loaded, argv_reset,
                   store_core, sig_core, Requirements_data, src_tree, core_head, histVars,
                   rpcVars, conf_tmp, handleVars, constVars>>

add_repo == AddRepo(Urls)

\* job 8: remove_repo(repo_id) -> Repos.remove
remove_repo ==
    /\ InLoop
    /\ \E repo_id \in 0..MaxRepoIds :
        LET found == GetById(Repos_plugins, repo_id)
            undoes == last.job = "add_repo" /\ last.ok /\ last.id = repo_id
            before == IF undoes THEN last ELSE Job("remove_repo")
        IN  IF found = {}
            THEN /\ last' = [Job("remove_repo") EXCEPT !.id = repo_id]
                 /\ UNCHANGED <<Repos_plugins, store_repos, sig_repos>>
            ELSE LET i == Min(found)
                     url == Repos_plugins[i].url
                     docs == GetByUrl(store_repos, url)
                 IN  /\ Repos_plugins' = RemoveAt(Repos_plugins, i)
                     /\ store_repos' = IF docs = {} THEN store_repos
                                       ELSE RemoveAt(store_repos, Min(docs))
                     /\ sig_repos' = Sig_remove(sig_repos)
                     /\ last' = [Job("remove_repo") EXCEPT !.id = repo_id, !.ok = TRUE,
                                    !.url = url, !.undo = undoes, !.mem = before.mem,
                                    !.store = before.store, !.sig = before.sig,
                                    !.calls = before.calls + 1]
    /\ UNCHANGED <<environ, core, tree, selVars, pc, sessionVars, loaded, argv_reset,
                   store_core, sig_core, Requirements_data, src_tree, core_head, histVars,
                   rpcVars, counter, conf_tmp, handleVars, constVars>>


\* job 22: invalidate_repos_cache
invalidate_repos_cache ==
    /\ InLoop
    /\ sig_repos' = Sig_remove(sig_repos)
    /\ last' = [Job("invalidate_repos_cache") EXCEPT !.ok = TRUE, !.calls = 1]
    /\ UNCHANGED <<environ, Repos_plugins, store_repos, core, tree, selVars, pc, sessionVars,
                   loaded, argv_reset, store_core, sig_core, Requirements_data, src_tree,
                   core_head, histVars, rpcVars, counter, conf_tmp, handleVars, constVars>>

\* job 23: set_env(key, value)
set_env ==
    /\ InLoop
    /\ \E key \in EnvKeys, value \in EnvValues :
        LET absent == key \notin DOMAIN environ
        IN  /\ conf_tmp' = Put(conf_tmp, key, value)
            /\ sig_repos' = IF absent THEN Sig_remove(sig_repos) ELSE sig_repos
            /\ environ' = Put(environ, key, value)
            /\ last' = [Job("set_env") EXCEPT !.key = key, !.value = value, !.ok = TRUE,
                           !.had = ~absent, !.calls = IF absent THEN 1 ELSE 0,
                           !.old = IF absent THEN "" ELSE environ[key]]
    /\ UNCHANGED <<Repos_plugins, store_repos, core, tree, selVars, pc, sessionVars,
                   loaded, argv_reset, store_core, sig_core, Requirements_data, src_tree,
                   core_head, histVars, rpcVars, counter, handleVars, constVars>>

\* job 24: unset_env(key)
unset_env ==
    /\ InLoop
    /\ \E key \in EnvKeys :
        LET present == key \in DOMAIN environ
        IN  /\ conf_tmp' = IF key \in DOMAIN conf_tmp THEN Drop(conf_tmp, key) ELSE conf_tmp
            /\ environ' = IF present THEN Drop(environ, key) ELSE environ
            /\ sig_repos' = IF present THEN Sig_remove(sig_repos) ELSE sig_repos
            /\ last' = [Job("unset_env") EXCEPT !.key = key, !.ok = present,
                           !.had = present, !.calls = IF present THEN 1 ELSE 0]
    /\ UNCHANGED <<Repos_plugins, store_repos, core, tree, selVars, pc, sessionVars,
                   loaded, argv_reset, store_core, sig_core, Requirements_data, src_tree,
                   core_head, histVars, rpcVars, counter, handleVars, constVars>>

\* a hard restart followed by a pass of the pipeline over a list that has a
\* repo: every repo is initialised and init_repos makes .sig_repos again
RestartPass ==
    /\ InLoop
    /\ ~sig_repos
    /\ Len(Repos_plugins) > 0
    /\ Repos_plugins' = [i \in DOMAIN Repos_plugins |->
                            [Repos_plugins[i] EXCEPT !.failed = FALSE]]
    /\ sig_repos' = Sig_make(sig_repos)
    /\ last' = NoJob
    /\ UNCHANGED <<environ, store_repos, core, tree, selVars, pc, sessionVars,
                   loaded, argv_reset, store_core, sig_core, Requirements_data, src_tree,
                   core_head, histVars, rpcVars, counter, conf_tmp, handleVars, constVars>>

NextJobs ==
    \/ add_repo
    \/ remove_repo
    \/ invalidate_repos_cache
    \/ set_env
    \/ unset_env
    \/ RestartPass

SpecJobs == InitJobs /\ [][NextJobs]_vars

\* add_repo with a url that may carry a token
add_repo_token == AddRepo(Urls \cup TokenUrls)

NextPaths ==
    \/ add_repo_token
    \/ remove_repo
    \/ RestartPass

\* the repo jobs over urls with and without a token
SpecPaths == InitJobs /\ [][NextPaths]_vars

\* C11: when remove_repo removes the repo that the add_repo handled just
\* before it added, the in-memory list and the stored list are what they were
\* before the add, and .sig_repos was invalidated exactly twice.
C11_AddThenRemove ==
    (last.job = "remove_repo" /\ last.undo) =>
        /\ Repos_plugins = last.mem
        /\ store_repos = last.store
        /\ last.calls = 2
        /\ ~sig_repos

\* a repo was added into a list that held one and removed again
C11_Witness ==
    /\ last.job = "remove_repo"
    /\ last.undo
    /\ Len(last.mem) > 0
    /\ last.sig


\* C12: set_env leaves environ[key] = value and the pair in config.env.tmp,
\* and removes .sig_repos when the key was absent from environ and leaves it
\* alone when the key was there; unset_env leaves the key in neither, and
\* removes .sig_repos when the key was in environ and leaves it alone otherwise.
C12_EnvJobs ==
    /\ last.job = "set_env" =>
        /\ last.key \in DOMAIN environ /\ environ[last.key] = last.value
        /\ last.key \in DOMAIN conf_tmp /\ conf_tmp[last.key] = last.value
        /\ IF last.had THEN sig_repos = last.sig /\ last.calls = 0
                       ELSE ~sig_repos /\ last.calls = 1
    /\ last.job = "unset_env" =>
        /\ last.key \notin DOMAIN environ
        /\ last.key \notin DOMAIN conf_tmp
        /\ IF last.had THEN ~sig_repos /\ last.calls = 1
                       ELSE sig_repos = last.sig /\ last.calls = 0

\* a key set before is set to another value while .sig_repos exists
C12_Witness ==
    /\ last.job = "set_env"
    /\ last.key = "FOO"
    /\ last.had
    /\ last.old # last.value
    /\ sig_repos


\* C27: a job that changed an input of the plugin selection leaves .sig_repos
\* absent: an add_repo or remove_repo that changed the list, an unset_env of a
\* key that was set, and a set_env that changed whether the variable is set and
\* non-empty, a key present with an empty value included.
C27_SelectionInputDropsSentinel ==
    /\ (last.job \in {"add_repo", "remove_repo"} /\ last.ok) => ~sig_repos
    /\ (last.job = "unset_env" /\ last.had) => ~sig_repos
    /\ (last.job = "set_env" /\ ((last.had /\ last.old # "") # (last.value # "")))
           => ~sig_repos

\* C15: an add_repo whose url does not match the accepted form, or is the url
\* of a repo of the list, changes neither the in-memory list nor the stored
\* list nor .sig_repos, and returns None rather than an error.
C15_AddRepoNoOp ==
    (/\ last.job = "add_repo"
     /\ last.url = "ftp" \/ GetByUrl(last.mem, last.url) # {}) =>
        /\ Repos_plugins = last.mem
        /\ store_repos = last.store
        /\ sig_repos = last.sig
        /\ last.calls = 0
        /\ last.reply = "None"

\* add_repo was handled with the url of a repo of the list while .sig_repos existed
C15_Witness ==
    /\ last.job = "add_repo"
    /\ GetByUrl(last.mem, last.url) # {}
    /\ last.sig


GitStatuses == {128}

GitStderrs == {"fatal", ""}

\* the operation run last on the handle: its name, whether the handle was
\* failed when it started, the state it started from, what it returned and
\* whether it raised
Op(name, value, raised) ==
    [op |-> name, was_failed |-> core.failed, core |-> core, error |-> git_error,
     head |-> git_head, store |-> store_core, value |-> value, raised |-> raised]

RECURSIVE Walk(_, _)
\* self._git.iter_commits(branch) from the commit `from` down to `to`
Walk(from, to) == IF from < to THEN <<>> ELSE <<from>> \o Walk(from - 1, to)

InitHandle ==
    /\ environ = [BOT_TOKEN |-> "v"]
    /\ Repos_plugins = <<>>
    /\ core \in {parse(b, v) : b \in {"alpha", "beta", "gone"}, v \in {0} \cup Commits}
    /\ tree = {}
    /\ sel_pc = "idle" /\ sel_i = 0 /\ sel_n = 0 /\ plugins = <<>>
    /\ producers = [n \in Names |-> {}] /\ builtin = {}
    /\ overridden = 0 /\ conflicts = {} /\ retained = <<>>
    /\ pc = "rpc" /\ S_init = FALSE /\ S_restart = FALSE /\ proc = "alive" /\ handlers = TRUE
    /\ p_p = "open"
    /\ loaded = TRUE /\ argv_reset = FALSE /\ sig_core = FALSE /\ sig_repos = FALSE
    /\ store_core = <<>> /\ store_repos = <<>> /\ Requirements_data = {}
    /\ src_tree = 0 /\ core_head = "branch" /\ restart_kind = "none" /\ cause = "none"
    /\ stages = {} /\ work = {} /\ runs = 1
    /\ RpcIdle
    /\ AuxIdle

\* _BaseRepo.init: nothing when the repository is open; else the clone on disk
\* is opened, or the url is cloned, and a failed clone records status and stderr
HandleInit ==
    /\ \E git_ok \in BOOLEAN, status \in GitStatuses, stderr \in GitStderrs :
        LET on_disk == git_head # <<>>
            ok == on_disk \/ git_ok
        IN  /\ core' = init(core, ok)
            /\ git_head' = IF core.failed /\ ~on_disk /\ git_ok
                           THEN [ref |-> CoreHeads[1], commit |-> HeadCommit(CoreHeads[1])]
                           ELSE git_head
            /\ git_error' = IF core.failed /\ ~ok
                            THEN <<status, IF stderr = "" THEN "null" ELSE stderr>>
                            ELSE git_error
            /\ ret' = [Op("init", "None", FALSE) EXCEPT !.value =
                          IF core.failed /\ ~ok THEN "clone failed" ELSE "None"]
    /\ UNCHANGED <<environ, Repos_plugins, tree, selVars, lifeVars, rpcVars, jobVars, constVars>>

\* _BaseRepo.fetch
HandleFetch ==
    /\ \E git_ok \in BOOLEAN, status \in GitStatuses, stderr \in GitStderrs :
        LET r == fetch(core, git_ok)
        IN  /\ core' = r.info
            /\ git_error' = IF ~core.failed /\ ~git_ok
                            THEN <<status, IF stderr = "" THEN "null" ELSE stderr>>
                            ELSE git_error
            /\ git_head' = IF ~core.failed /\ git_ok
                           THEN [ref |-> r.info.branch, commit |-> HeadCommit(r.info.branch)]
                           ELSE git_head
            /\ store_core' = IF r.changed THEN _update(r.info) ELSE store_core
            /\ ret' = Op("fetch", "None", FALSE)
    /\ UNCHANGED <<environ, Repos_plugins, tree, selVars, pc, sessionVars, loaded, argv_reset,
                   store_repos, fileVars, histVars, rpcVars, jobVars, constVars>>

\* _BaseRepo.checkout_version: git checkout <version> unless HEAD is there;
\* git fails on a version it cannot resolve
checkout_version ==
    /\ IF ~core.failed /\ git_head.commit # core.version
       THEN IF core.version \in Commits
            THEN /\ git_head' = [ref |-> "", commit |-> core.version]
                 /\ ret' = Op("checkout_version", "None", FALSE)
            ELSE /\ ret' = Op("checkout_version", "GitCommandError", TRUE)
                 /\ UNCHANGED git_head
       ELSE /\ ret' = Op("checkout_version", "None", FALSE)
            /\ UNCHANGED git_head
    /\ UNCHANGED <<environ, Repos_plugins, core, tree, selVars, lifeVars, rpcVars, jobVars, constVars,
                   git_error>>

\* _BaseRepo.checkout_branch: git checkout <branch> unless HEAD is on it;
\* git fails on a branch it does not have
checkout_branch ==
    /\ IF ~core.failed /\ git_head.ref # core.branch
       THEN IF core.branch \in Range(CoreHeads)
            THEN /\ git_head' = [ref |-> core.branch, commit |-> HeadCommit(core.branch)]
                 /\ ret' = Op("checkout_branch", "None", FALSE)
            ELSE /\ ret' = Op("checkout_branch", "GitCommandError", TRUE)
                 /\ UNCHANGED git_head
       ELSE /\ ret' = Op("checkout_branch", "None", FALSE)
            /\ UNCHANGED git_head
    /\ UNCHANGED <<environ, Repos_plugins, core, tree, selVars, lifeVars, rpcVars, jobVars, constVars,
                   git_error>>

\* self._git.iter_commits(branch) of a branch whose head is the commit `head`
iter_commits(head) == Walk(head, 1)

RECURSIVE NewLoop(_, _, _)
\* the loop of new_commits, lines 286-293: commits are collected until the
\* pinned version is met; a walk that ends without it clears the list
NewLoop(walk, version, data) ==
    IF walk = <<>> THEN <<>>
    ELSE IF Head(walk) = version THEN data
    ELSE NewLoop(Tail(walk), version, Append(data, Head(walk)))

\* a new_commits that keeps what it collected when the version was not met
NewCommitsKept(exists, walk, version) ==
    IF exists /\ \E i \in DOMAIN walk : walk[i] = version
    THEN NewLoop(walk, version, <<>>)
    ELSE IF exists THEN walk ELSE <<>>

\* new_commits on an open repository: exists is _version_exists(version)
NewCommits(exists, walk, version) ==
    IF exists THEN NewLoop(walk, version, <<>>) ELSE <<>>

RECURSIVE OldLoop(_, _, _, _, _)
\* the loop of old_commits, lines 303-313: commits are skipped up to and
\* including the pinned version, then collected until limit reaches 0
OldLoop(walk, version, found, limit, data) ==
    IF walk = <<>> THEN data
    ELSE IF ~found
         THEN OldLoop(Tail(walk), version, Head(walk) = version, limit, data)
         ELSE IF limit - 1 <= 0
              THEN Append(data, Head(walk))
              ELSE OldLoop(Tail(walk), version, TRUE, limit - 1, Append(data, Head(walk)))

\* an old_commits that never counts its limit down
OldCommitsUnlimited(exists, walk, version, limit) ==
    IF limit > 0 /\ exists THEN OldLoop(walk, version, FALSE, Len(walk) + 1, <<>>) ELSE <<>>

\* old_commits(limit) on an open repository
OldCommits(exists, walk, version, limit) ==
    IF limit > 0 /\ exists THEN OldLoop(walk, version, FALSE, limit, <<>>) ELSE <<>>

\* _BaseRepo.new_commits: the commits of the branch above the pinned version,
\* none when the version is not on the branch; self._git.iter_commits raises
\* AttributeError when there is no repository and GitCommandError on a branch
\* the repository does not have
new_commits ==
    /\ IF _version_exists(core, core.version)
       THEN IF core.failed
            THEN ret' = Op("new_commits", "AttributeError", TRUE)
            ELSE IF core.branch \notin Range(CoreHeads)
                 THEN ret' = Op("new_commits", "GitCommandError", TRUE)
                 ELSE ret' = Op("new_commits",
                                NewCommits(TRUE, iter_commits(HeadCommit(core.branch)),
                                           core.version), FALSE)
       ELSE ret' = Op("new_commits", <<>>, FALSE)
    /\ UNCHANGED <<environ, Repos_plugins, core, tree, selVars, lifeVars, rpcVars, jobVars, constVars,
                   git_error, git_head>>

\* _BaseRepo.old_commits(limit): up to limit commits of the branch below the
\* pinned version
old_commits ==
    /\ \E limit \in 0..MaxCoreCount :
        IF limit > 0 /\ _version_exists(core, core.version)
        THEN IF core.failed
             THEN ret' = Op("old_commits", "AttributeError", TRUE)
             ELSE IF core.branch \notin Range(CoreHeads)
                  THEN ret' = Op("old_commits", "GitCommandError", TRUE)
                  ELSE ret' = Op("old_commits",
                                 OldCommits(TRUE, iter_commits(HeadCommit(core.branch)),
                                            core.version, limit), FALSE)
        ELSE ret' = Op("old_commits", <<>>, FALSE)
    /\ UNCHANGED <<environ, Repos_plugins, core, tree, selVars, lifeVars, rpcVars, jobVars, constVars,
                   git_error, git_head>>

NextHandle ==
    \/ HandleInit
    \/ HandleFetch
    \/ checkout_version
    \/ checkout_branch
    \/ new_commits
    \/ old_commits

SpecHandle == InitHandle /\ [][NextHandle]_vars

\* C17: an init() whose clone failed leaves the handle failed with the status
\* and the stderr of git recorded; on a failed handle fetch, checkout_version,
\* checkout_branch, new_commits and old_commits change nothing, return None or
\* the empty list and do not raise.
C17_FailedHandleInert ==
    /\ (ret # <<>> /\ ret.op = "init" /\ ret.value = "clone failed") =>
        /\ core.failed
        /\ git_error \in GitStatuses \X {"fatal", "null"}
    /\ (ret # <<>> /\ ret.op # "init" /\ ret.was_failed) =>
        /\ core = ret.core
        /\ git_error = ret.error
        /\ git_head = ret.head
        /\ store_core = ret.store
        /\ ~ret.raised
        /\ ret.value = IF ret.op \in {"new_commits", "old_commits"} THEN <<>> ELSE "None"

\* new_commits ran on a handle whose clone had failed and whose version is pinned
C17_Witness ==
    /\ ret # <<>>
    /\ ret.op = "new_commits"
    /\ ret.was_failed
    /\ git_error # <<>>
    /\ core.version \in Commits

\* ---------------------------------------------------------------------------
\* The lifecycle of a loader whose Store lists two plugin repos

InitTwoRepos ==
    /\ environ = [BOT_TOKEN |-> "v", token |-> "v", blank |-> ""]
    /\ Repos_plugins = <<>>
    /\ core = NoCore
    /\ tree = {}
    /\ sel_pc = "idle" /\ sel_i = 0 /\ sel_n = 0 /\ plugins = <<>>
    /\ producers = [n \in Names |-> {}] /\ builtin = {}
    /\ overridden = 0 /\ conflicts = {} /\ retained = <<>>
    /\ pc = "load"
    /\ S_init = TRUE /\ S_restart = FALSE /\ proc = "none" /\ handlers = FALSE
    /\ p_p = "none"
    /\ loaded = FALSE /\ argv_reset = FALSE
    /\ store_core = <<>>
    /\ store_repos = <<[priority |-> 5, url |-> "u0"], [priority |-> 0, url |-> "u1"]>>
    /\ sig_core = FALSE /\ sig_repos = FALSE
    /\ Requirements_data = {} /\ src_tree = 0 /\ core_head = "branch"
    /\ restart_kind = "none" /\ cause = "none" /\ stages = {} /\ work = {} /\ runs = 0
    /\ RpcIdle
    /\ AuxIdle

SpecTwoRepos == InitTwoRepos /\ [][Next]_vars

\* the plugin directories of the repos of the list that are not failed
DirsOfHealthyRepos ==
    {[cat |-> "x", name |-> Ships(Repos_plugins[i]).name, repo |-> Repos_plugins[i].id] :
        i \in {j \in DOMAIN Repos_plugins : ~Repos_plugins[j].failed}}

C19_SignalEndsLoop ==
    /\ [][(Signal /\ pc = "rpc" /\ handlers) =>
            /\ p_p' = "closed"
            /\ proc' = IF proc = "alive" THEN "terminated" ELSE proc
            /\ UNCHANGED <<environ, Repos_plugins, core, tree, selVars, pc, S_init, S_restart,
                           handlers, storeVars, fileVars, histVars, rpcVars, auxVars>>]_vars
    /\ [](pc = "rpc" /\ p_p = "closed" => proc \in {"terminated", "dead"})
    /\ (pc = "rpc" /\ p_p = "closed") ~> (pc = "after" /\ p_p = "closed" /\ proc = "closed")

\* the handler ran in the loop and the child has ended since
C19_Witness ==
    /\ pc = "rpc"
    /\ p_p = "closed"
    /\ proc = "dead"
    /\ restart_kind = "none"

\* ---------------------------------------------------------------------------
\* The plugin constraints (types.py: _ConstraintData, _Constraint, _Constraints,
\* Constraints).  A rule is its text split at '/'.

MaxRules == 2

\* the rule texts the jobs are given: ping, PING, admin/, repo/ping, repo/admin/
\* and the empty text
RawInputs == {<<"a">>, <<"A">>, <<"x", "">>, <<"u0", "b">>, <<"u1", "y", "">>, <<"">>}

\* str.strip().lower() on a part of a rule
str_lower(s) == IF s = "A" THEN "a" ELSE s

\* data.strip().lower() on a rule
Normal(raw) == [i \in DOMAIN raw |-> str_lower(raw[i])]

\* _ConstraintData.parse: "" stands for None
ConstraintData_parse(raw) ==
    IF Len(raw) = 3 THEN [repo_name |-> raw[1], plg_cat |-> raw[2], plg_name |-> ""]
    ELSE IF Len(raw) = 2
    THEN IF raw[2] # "" THEN [repo_name |-> raw[1], plg_cat |-> "", plg_name |-> raw[2]]
         ELSE [repo_name |-> "", plg_cat |-> raw[1], plg_name |-> ""]
    ELSE [repo_name |-> "", plg_cat |-> "", plg_name |-> raw[1]]

\* _ConstraintData.match
ConstraintData_match(raw, plg) ==
    LET cd == ConstraintData_parse(raw)
    IN  IF cd.repo_name # "" /\ cd.repo_name # plg[1] THEN FALSE
        ELSE IF cd.plg_cat # "" /\ cd.plg_cat # plg[2] THEN FALSE
        ELSE IF cd.plg_name # "" /\ cd.plg_name # plg[3] THEN FALSE
        ELSE cd.repo_name # "" \/ cd.plg_cat # "" \/ cd.plg_name # ""

\* _Constraint.match: some rule of the kind matches
Constraint_match(rules, plg) == \E raw \in rules : ConstraintData_match(raw, plg)

\* a match that asks the exclude rules before the include rules
Constraints_match_exclude_first(data, plg) ==
    IF data["exclude"] # {} /\ Constraint_match(data["exclude"], plg) THEN "exclude"
    ELSE IF data["include"] # {} /\ Constraint_match(data["include"], plg) THEN "None"
    ELSE IF data["in"] # {} /\ ~Constraint_match(data["in"], plg) THEN "in"
    ELSE "None"

RECURSIVE MatchFrom(_, _, _)
\* the loop of _Constraints.match from the k-th kind: the kind of the constraint
\* returned, "None" when the loop breaks or ends
MatchFrom(data, plg, k) ==
    IF k > Len(Kinds) THEN "None"
    ELSE LET const == data[Kinds[k]]
         IN  IF const = {} THEN MatchFrom(data, plg, k + 1)
             ELSE IF Kinds[k] = "include"
             THEN IF Constraint_match(const, plg) THEN "None" ELSE MatchFrom(data, plg, k + 1)
             ELSE IF Kinds[k] = "exclude"
             THEN IF Constraint_match(const, plg) THEN "exclude"
                  ELSE MatchFrom(data, plg, k + 1)
             ELSE IF ~Constraint_match(const, plg) THEN "in" ELSE MatchFrom(data, plg, k + 1)

\* _Constraints.match
Constraints_match(data, plg) == MatchFrom(data, plg, 1)

\* _Constraints.get(c_type): the kind, "" when there is none
Constraints_get(c_type) == IF c_type \in Range(Kinds) THEN c_type ELSE ""

\* the number of rules held
Rules(data) == Cardinality(data["include"]) + Cardinality(data["exclude"])
                   + Cardinality(data["in"])

\* the lists of rule texts a job is given
DataLists == {{raw} : raw \in RawInputs} \cup {{<<"a">>, <<"x", "">>}}

\* the plugins matched: (repo_name, cat, name), lower-cased by Constraints.match
MatchedPlugins == {"u0", "u1"} \X Cats \X {"a", "b"}

InitConstraints ==
    /\ environ = [BOT_TOKEN |-> "v"]
    /\ Repos_plugins = <<>>
    /\ core = [branch |-> "alpha", version |-> 1, count |-> 1, failed |-> FALSE]
    /\ tree = {}
    /\ sel_pc = "idle" /\ sel_i = 0 /\ sel_n = 0 /\ plugins = <<>>
    /\ producers = [n \in Names |-> {}] /\ builtin = {}
    /\ overridden = 0 /\ conflicts = {} /\ retained = <<>>
    /\ pc = "rpc" /\ S_init = FALSE /\ S_restart = FALSE /\ proc = "alive" /\ handlers = TRUE
    /\ p_p = "open"
    /\ loaded = TRUE /\ argv_reset = FALSE /\ sig_core = TRUE /\ sig_repos = TRUE
    /\ store_core = <<>> /\ store_repos = <<>> /\ Requirements_data = {}
    /\ src_tree = 1 /\ core_head = "branch" /\ restart_kind = "none" /\ cause = "none"
    /\ stages = Stages /\ work = {} /\ runs = 1
    /\ RpcIdle
    /\ AuxIdle

\* Constraints.add(c_type, data)
add_constraints ==
    /\ \E c_type \in Range(Kinds) \cup {"bogus"}, data \in DataLists :
        LET const == Constraints_get(c_type)
            to_add == IF const = "" THEN {}
                      ELSE {Normal(d) : d \in data} \ Constraints_data[const]
        IN  /\ Rules(Constraints_data) + Cardinality(to_add) <= MaxRules
            /\ IF to_add = {}
               THEN UNCHANGED <<Constraints_data, store_constraint, sig_repos>>
               ELSE /\ Constraints_data' = [Constraints_data EXCEPT ![const] = @ \cup to_add]
                    /\ store_constraint' = store_constraint \cup
                           {[type |-> const, data |-> d] : d \in to_add}
                    /\ sig_repos' = Sig_remove(sig_repos)
    /\ decision' = <<>>
    /\ UNCHANGED <<environ, Repos_plugins, core, tree, selVars, pc, sessionVars, storeVars,
                   sig_core, Requirements_data, src_tree, core_head, histVars, rpcVars,
                   jobVars, handleVars>>

\* Constraints.remove(c_type, data); c_type "" stands for None
remove_constraints ==
    /\ \E c_type \in Range(Kinds) \cup {"bogus", ""}, data \in DataLists :
        LET const == Constraints_get(c_type)
            kinds == IF c_type = "" THEN Range(Kinds)
                     ELSE IF const = "" THEN {} ELSE {const}
            given == {Normal(d) : d \in data}
            to_remove == UNION {given \cap Constraints_data[k] : k \in kinds}
        IN  IF to_remove = {}
            THEN UNCHANGED <<Constraints_data, store_constraint, sig_repos>>
            ELSE /\ Constraints_data' = [k \in Range(Kinds) |->
                        IF k \in kinds THEN Constraints_data[k] \ given
                        ELSE Constraints_data[k]]
                 /\ store_constraint' = {doc \in store_constraint :
                        ~(doc.data \in to_remove /\ (c_type = "" \/ doc.type = c_type))}
                 /\ sig_repos' = Sig_remove(sig_repos)
    /\ decision' = <<>>
    /\ UNCHANGED <<environ, Repos_plugins, core, tree, selVars, pc, sessionVars, storeVars,
                   sig_core, Requirements_data, src_tree, core_head, histVars, rpcVars,
                   jobVars, handleVars>>

\* Constraints.clear(c_type); c_type "" stands for None
clear_constraints ==
    /\ \E c_type \in Range(Kinds) \cup {"bogus", ""} :
        LET const == Constraints_get(c_type)
            kinds == IF c_type = "" THEN Range(Kinds)
                     ELSE IF const = "" THEN {} ELSE {const}
            count == Cardinality(UNION {Constraints_data[k] : k \in kinds})
        IN  IF \A k \in kinds : Constraints_data[k] = {}
            THEN UNCHANGED <<Constraints_data, store_constraint, sig_repos>>
            ELSE /\ Constraints_data' = [k \in Range(Kinds) |->
                        IF k \in kinds THEN {} ELSE Constraints_data[k]]
                 /\ store_constraint' = {}
                 /\ sig_repos' = Sig_remove(sig_repos)
    /\ decision' = <<>>
    /\ UNCHANGED <<environ, Repos_plugins, core, tree, selVars, pc, sessionVars, storeVars,
                   sig_core, Requirements_data, src_tree, core_head, histVars, rpcVars,
                   jobVars, handleVars>>

\* Constraints.match(plg)
MatchPlugin ==
    /\ \E plg \in MatchedPlugins :
        decision' = [plg |-> plg, data |-> Constraints_data,
                     result |-> Constraints_match(Constraints_data, plg)]
    /\ UNCHANGED <<environ, Repos_plugins, core, tree, selVars, lifeVars, rpcVars,
                   jobVars, handleVars, Constraints_data, store_constraint>>

NextConstraints ==
    \/ add_constraints
    \/ remove_constraints
    \/ clear_constraints
    \/ MatchPlugin

SpecConstraints == InitConstraints /\ [][NextConstraints]_vars

\* the rules of a kind that matched the plugin matched last
Matching(kind) ==
    {raw \in decision.data[kind] : ConstraintData_match(raw, decision.plg)}

\* C21: the decision for a plugin is keep (None) when an include rule matches,
\* whatever the exclude rules say; else the exclude constraint when an exclude
\* rule matches; else the in constraint when there are in rules and none of them
\* matches; else keep.
C21_Decision ==
    decision # <<>> =>
        decision.result =
            IF Matching("include") # {} THEN "None"
            ELSE IF Matching("exclude") # {} THEN "exclude"
            ELSE IF decision.data["in"] # {} /\ Matching("in") = {} THEN "in"
            ELSE "None"

\* a plugin that an include rule and an exclude rule both match was kept
C21_Witness ==
    /\ decision # <<>>
    /\ Matching("include") # {}
    /\ Matching("exclude") # {}
    /\ decision.result = "None"

\* ---------------------------------------------------------------------------
\* new_commits and old_commits on an open repository with a longer history:
\* the repository has the commits 1..MaxWalk, the tracked branch has its head
\* at any of them, and the pinned version is empty (0), one of the commits or
\* a name that resolves to nothing (MaxWalk + 1).

MaxWalk == 4

WalkVersions == 0..(MaxWalk + 1)

Limits == (0 - 1)..MaxWalk

\* _version_exists(version) on that repository
WalkVersionExists(version) == version \in 1..MaxWalk

InitCommits ==
    /\ environ = [BOT_TOKEN |-> "v"]
    /\ Repos_plugins = <<>>
    /\ core = [branch |-> "alpha", version |-> 1, count |-> 1, failed |-> FALSE]
    /\ tree = {}
    /\ sel_pc = "idle" /\ sel_i = 0 /\ sel_n = 0 /\ plugins = <<>>
    /\ producers = [n \in Names |-> {}] /\ builtin = {}
    /\ overridden = 0 /\ conflicts = {} /\ retained = <<>>
    /\ LifeRunning
    /\ RpcIdle
    /\ AuxIdle

\* get_repo_new_commits / get_core_new_commits: repo.new_commits()
WalkNewCommits ==
    /\ \E head \in 1..MaxWalk, version \in WalkVersions :
           ret' = [op |-> "new_commits", walk |-> iter_commits(head), version |-> version,
                   limit |-> 0,
                   value |-> NewCommits(WalkVersionExists(version), iter_commits(head), version)]
    /\ UNCHANGED <<environ, Repos_plugins, core, tree, selVars, lifeVars, rpcVars, jobVars,
                   constVars, git_error, git_head>>

\* get_repo_old_commits / get_core_old_commits: repo.old_commits(limit)
WalkOldCommits ==
    /\ \E head \in 1..MaxWalk, version \in WalkVersions, limit \in Limits :
           ret' = [op |-> "old_commits", walk |-> iter_commits(head), version |-> version,
                   limit |-> limit,
                   value |-> OldCommits(WalkVersionExists(version), iter_commits(head),
                                        version, limit)]
    /\ UNCHANGED <<environ, Repos_plugins, core, tree, selVars, lifeVars, rpcVars, jobVars,
                   constVars, git_error, git_head>>

NextCommits ==
    \/ WalkNewCommits
    \/ WalkOldCommits

SpecCommits == InitCommits /\ [][NextCommits]_vars

\* the position of the pinned version in the walk of the last call, 0 when
\* the walk does not reach it
Pinned ==
    IF \E i \in DOMAIN ret.walk : ret.walk[i] = ret.version
    THEN CHOOSE i \in DOMAIN ret.walk : ret.walk[i] = ret.version
    ELSE 0

\* C23: old_commits(limit) returns at most limit commits, all of them strictly
\* after the pinned version in the walk from the newest commit to the oldest,
\* in the order of the walk and starting right after the pinned version; it
\* returns the empty list when limit <= 0 or the walk does not reach the
\* pinned version.
C23_OldCommits ==
    (ret # <<>> /\ ret.op = "old_commits") =>
        LET n == Len(ret.value)
        IN  /\ IF ret.limit <= 0 \/ Pinned = 0
               THEN n = 0
               ELSE n = Min({ret.limit, Len(ret.walk) - Pinned})
            /\ \A k \in 1..n : ret.value[k] = ret.walk[Pinned + k]

\* more commits follow the pinned version than the limit lets through
C23_Witness ==
    /\ ret # <<>>
    /\ ret.op = "old_commits"
    /\ ret.limit = 2
    /\ Pinned > 0
    /\ Len(ret.walk) - Pinned > 2
    /\ Len(ret.value) = 2

\* C24: new_commits() returns exactly the commits that come before the pinned
\* version in the walk from the newest commit to the oldest, in walk order; it
\* returns the empty list when the pinned version is the head and when the
\* walk never reaches the pinned version.
C24_NewCommits ==
    (ret # <<>> /\ ret.op = "new_commits") =>
        /\ Pinned = 0 => ret.value = <<>>
        /\ Pinned > 0 =>
            /\ Len(ret.value) = Pinned - 1
            /\ \A k \in 1..(Pinned - 1) : ret.value[k] = ret.walk[k]

\* the pinned version resolves but is not on the tracked branch
C24_Witness ==
    /\ ret # <<>>
    /\ ret.op = "new_commits"
    /\ WalkVersionExists(ret.version)
    /\ Pinned = 0
    /\ ret.value = <<>>

\* ---------------------------------------------------------------------------
\* The lifecycle of a loader whose Store lists one plugin repo, with the job
\* that removes a repo among the jobs of the RPC loop

InitOneRepo ==
    /\ Init
    /\ store_repos # <<>>
    /\ ~("CUSTOM_PIP_PACKAGES" \in DOMAIN environ)

NextOneRepo ==
    \/ Next
    \/ remove_repo

SpecOneRepo == InitOneRepo /\ [][NextOneRepo]_vars

\* C26: the pass of a hard restart that follows the removal of the only repo,
\* and so starts without .sig_repos, hands the child a tree without a plugin
\* directory of the removed repo.
C26_NoDirOfRemovedRepo ==
    (pc = "run_userge" /\ restart_kind = "hard" /\ Repos_plugins = <<>>) => tree = {}

\* ---------------------------------------------------------------------------
\* The repo list in memory against the repos collection of the Store, under
\* the jobs of a running loader.  Here a repo carries its tracked branch and
\* pinned version: [id, priority, branch, version, count, url, failed] in
\* memory, [priority, branch, version, url] in the Store.

MaxCacheRepos == 1

CacheBranches == {"alpha", "gone"}

\* how the git commands of one fetch() end: all succeed, remote().fetch()
\* fails (caught by fetch), or checkout / pull fails (outside the try block)
FetchOutcomes == {"ok", "fetch_failed", "pull_failed"}

\* _PluginsRepo.parse
PluginsRepo_parse(id, priority, branch, version, url) ==
    [id |-> id, priority |-> priority, branch |-> branch, version |-> version, count |-> 0,
     url |-> url, failed |-> TRUE]

\* _PluginsRepo._update: update_one on the document of the repo's url
PluginsRepo_update(store, info) ==
    LET docs == GetByUrl(store, info.url)
    IN  IF docs = {} THEN store
        ELSE [store EXCEPT ![Min(docs)] =
                 [priority |-> info.priority, branch |-> info.branch,
                  version |-> info.version, url |-> info.url]]

\* _BaseRepo.fetch with the outcome of its git commands: the new info, whether
\* _update() was reached with a change, and whether an exception left fetch
fetch_pull(info, outcome) ==
    IF info.failed \/ outcome = "fetch_failed"
    THEN [info |-> fetch(info, FALSE).info, changed |-> FALSE, raised |-> FALSE]
    ELSE IF outcome = "pull_failed"
    THEN [info |-> [info EXCEPT !.branch = IF _branch_exists(info, info.branch)
                                           THEN info.branch ELSE CoreHeads[1]],
          changed |-> FALSE, raised |-> TRUE]
    ELSE [info |-> fetch(info, TRUE).info, changed |-> fetch(info, TRUE).changed,
          raised |-> FALSE]

RECURSIVE FetchRepos(_, _, _, _)
\* the loop of the job fetch_repos from the k-th repo on: repo.init() and
\* repo.fetch() for each repo, up to the first exception
FetchRepos(list, store, k, outs) ==
    IF k > Len(list) THEN [list |-> list, store |-> store, raised |-> FALSE]
    ELSE LET r == fetch_pull(init(list[k], outs[k][1]), outs[k][2])
             list2 == [list EXCEPT ![k] = r.info]
         IN  IF r.raised THEN [list |-> list2, store |-> store, raised |-> TRUE]
             ELSE FetchRepos(list2,
                             IF r.changed THEN PluginsRepo_update(store, r.info) ELSE store,
                             k + 1, outs)

\* the (url, priority, branch, version) records of the list in memory
MemRecords ==
    {[url |-> r.url, priority |-> r.priority, branch |-> r.branch, version |-> r.version] :
        r \in Range(Repos_plugins)}

\* the same records of the repos collection
StoreRecords ==
    {[url |-> d.url, priority |-> d.priority, branch |-> d.branch, version |-> d.version] :
        d \in Range(store_repos)}

\* the record kept of the job handled last: what it answered and, for a job
\* that answered with an exception, the records it started from
CacheJob(name, raised) ==
    IF raised
    THEN [job |-> name, reply |-> "error", mem |-> MemRecords, store |-> StoreRecords]
    ELSE [job |-> "job", reply |-> "None"]

InitCache ==
    /\ environ = [BOT_TOKEN |-> "v"]
    /\ store_repos \in {<<>>, <<[priority |-> 5, branch |-> "alpha", version |-> 1,
                                 url |-> "u0"]>>}
    /\ Repos_plugins = [i \in DOMAIN store_repos |->
                           [PluginsRepo_parse(i - 1, store_repos[i].priority,
                                              store_repos[i].branch, store_repos[i].version,
                                              store_repos[i].url)
                            EXCEPT !.failed = FALSE, !.count = store_repos[i].version]]
    /\ counter = Len(store_repos)
    /\ sig_repos = (Len(store_repos) > 0)
    /\ core = [branch |-> "alpha", version |-> 1, count |-> 1, failed |-> FALSE]
    /\ store_core = _update(core)
    /\ tree = {}
    /\ sel_pc = "idle" /\ sel_i = 0 /\ sel_n = 0 /\ plugins = <<>>
    /\ producers = [n \in Names |-> {}] /\ builtin = {}
    /\ overridden = 0 /\ conflicts = {} /\ retained = <<>>
    /\ pc = "rpc" /\ S_init = FALSE /\ S_restart = FALSE /\ proc = "alive" /\ handlers = TRUE
    /\ p_p = "open"
    /\ loaded = TRUE /\ argv_reset = FALSE /\ sig_core = TRUE
    /\ Requirements_data = {}
    /\ src_tree = 1 /\ core_head = "branch" /\ restart_kind = "none" /\ cause = "none"
    /\ stages = Stages /\ work = {} /\ runs = 1
    /\ RpcIdle
    /\ conf_tmp = <<>> /\ last = NoJob /\ git_error = <<>> /\ git_head = <<>> /\ ret = <<>>
    /\ ConstIdle

\* job 7: add_repo(priority, branch, url) -> Repos.add
Repos_add ==
    /\ InLoop
    /\ \E priority \in {5, 10}, branch \in CacheBranches, url \in Urls :
        IF ~RE_REPO_match(url) \/ GetByUrl(Repos_plugins, url) # {}
        THEN UNCHANGED <<Repos_plugins, store_repos, sig_repos, counter>>
        ELSE /\ counter < MaxCacheRepos
             /\ Repos_plugins' = Repos_sort(Append(Repos_plugins,
                    PluginsRepo_parse(counter, priority, branch, 0, url)))
             /\ counter' = counter + 1
             /\ store_repos' = Append(store_repos, [priority |-> priority, branch |-> branch,
                                                    version |-> 0, url |-> url])
             /\ sig_repos' = Sig_remove(sig_repos)
    /\ last' = CacheJob("add_repo", FALSE)
    /\ UNCHANGED <<environ, core, tree, selVars, pc, sessionVars, loaded, argv_reset,
                   store_core, sig_core, Requirements_data, src_tree, core_head, histVars,
                   rpcVars, conf_tmp, handleVars, constVars>>

\* job 8: remove_repo(repo_id) -> Repos.remove
Repos_remove ==
    /\ InLoop
    /\ \E repo_id \in 0..(MaxCacheRepos - 1) :
        LET found == GetById(Repos_plugins, repo_id)
        IN  IF found = {}
            THEN UNCHANGED <<Repos_plugins, store_repos, sig_repos>>
            ELSE LET docs == GetByUrl(store_repos, Repos_plugins[Min(found)].url)
                 IN  /\ Repos_plugins' = RemoveAt(Repos_plugins, Min(found))
                     /\ store_repos' = IF docs = {} THEN store_repos
                                       ELSE RemoveAt(store_repos, Min(docs))
                     /\ sig_repos' = Sig_remove(sig_repos)
    /\ last' = CacheJob("remove_repo", FALSE)
    /\ UNCHANGED <<environ, core, tree, selVars, pc, sessionVars, loaded, argv_reset,
                   store_core, sig_core, Requirements_data, src_tree, core_head, histVars,
                   rpcVars, counter, conf_tmp, handleVars, constVars>>

\* what a job that edits one repo does once the edit is made: repo.update()
\* and Sig.repos_remove()
EditRepo(list) ==
    /\ Repos_plugins' = list
    /\ store_repos' = IF list = Repos_plugins THEN store_repos
                      ELSE LET k == CHOOSE i \in DOMAIN list :
                                        list[i] \notin Range(Repos_plugins)
                           IN  PluginsRepo_update(store_repos, list[k])
    /\ sig_repos' = IF list = Repos_plugins THEN sig_repos ELSE Sig_remove(sig_repos)

\* job 15: set_repo_branch(repo_id, branch)
set_repo_branch ==
    /\ InLoop
    /\ \E repo_id \in 0..(MaxCacheRepos - 1), branch \in {"alpha", "beta", "gone"} :
        LET found == GetById(Repos_plugins, repo_id)
        IN  IF found # {} /\ Repos_plugins[Min(found)].branch # branch
                          /\ _branch_exists(Repos_plugins[Min(found)], branch)
            THEN EditRepo([Repos_plugins EXCEPT ![Min(found)].branch = branch,
                                                ![Min(found)].version = 0])
            ELSE EditRepo(Repos_plugins)
    /\ last' = CacheJob("set_repo_branch", FALSE)
    /\ UNCHANGED <<environ, core, tree, selVars, pc, sessionVars, loaded, argv_reset,
                   store_core, sig_core, Requirements_data, src_tree, core_head, histVars,
                   rpcVars, counter, conf_tmp, handleVars, constVars>>

\* job 16: set_repo_version(repo_id, version)
set_repo_version ==
    /\ InLoop
    /\ \E repo_id \in 0..(MaxCacheRepos - 1), version \in 0..(MaxCoreCount + 1) :
        LET found == GetById(Repos_plugins, repo_id)
        IN  IF found # {} /\ Repos_plugins[Min(found)].version # version
                          /\ _version_exists(Repos_plugins[Min(found)], version)
            THEN EditRepo([Repos_plugins EXCEPT ![Min(found)].version = version])
            ELSE EditRepo(Repos_plugins)
    /\ last' = CacheJob("set_repo_version", FALSE)
    /\ UNCHANGED <<environ, core, tree, selVars, pc, sessionVars, loaded, argv_reset,
                   store_core, sig_core, Requirements_data, src_tree, core_head, histVars,
                   rpcVars, counter, conf_tmp, handleVars, constVars>>

\* job 17: set_repo_priority(repo_id, priority)
set_repo_priority ==
    /\ InLoop
    /\ \E repo_id \in 0..(MaxCacheRepos - 1), priority \in {5, 10} :
        LET found == GetById(Repos_plugins, repo_id)
        IN  IF found # {} /\ Repos_plugins[Min(found)].priority # priority
            THEN LET edited == [Repos_plugins[Min(found)] EXCEPT !.priority = priority]
                 IN  /\ Repos_plugins' =
                            Repos_sort([Repos_plugins EXCEPT ![Min(found)] = edited])
                     /\ store_repos' = PluginsRepo_update(store_repos, edited)
                     /\ sig_repos' = Sig_remove(sig_repos)
            ELSE UNCHANGED <<Repos_plugins, store_repos, sig_repos>>
    /\ last' = CacheJob("set_repo_priority", FALSE)
    /\ UNCHANGED <<environ, core, tree, selVars, pc, sessionVars, loaded, argv_reset,
                   store_core, sig_core, Requirements_data, src_tree, core_head, histVars,
                   rpcVars, counter, conf_tmp, handleVars, constVars>>

\* job 4: fetch_repos()
fetch_repos ==
    /\ InLoop
    /\ Repos_plugins # <<>>
    /\ \E outs \in [DOMAIN Repos_plugins -> BOOLEAN \X FetchOutcomes] :
        LET r == FetchRepos(Repos_plugins, store_repos, 1, outs)
        IN  /\ Repos_plugins' = r.list
            /\ store_repos' = r.store
            /\ last' = CacheJob("fetch_repos", r.raised)
    /\ UNCHANGED <<environ, core, tree, selVars, pc, sessionVars, loaded, argv_reset,
                   store_core, fileVars, histVars, rpcVars, counter, conf_tmp, handleVars,
                   constVars>>

NextCache ==
    \/ Repos_add
    \/ Repos_remove
    \/ set_core_branch
    \/ set_core_version
    \/ set_repo_branch
    \/ set_repo_version
    \/ set_repo_priority
    \/ fetch_core
    \/ fetch_repos

SpecCache == InitCache /\ [][NextCache]_vars

\* C30: the repo list in memory is a write-through cache of the Store: after
\* any sequence of add_repo, remove_repo, set_core_branch, set_core_version,
\* set_repo_branch, set_repo_version, set_repo_priority and fetch jobs the
\* records in memory are those of the Store, and a job that answered with an
\* error changed neither.
C30_WriteThrough ==
    /\ MemRecords = StoreRecords
    /\ store_core = _update(core)
    /\ (last.job # "none" /\ last.reply = "error") =>
           (MemRecords = last.mem /\ StoreRecords = last.store)

\* the documents the rules in memory would be stored as
ConstraintDocs ==
    UNION {{[type |-> k, data |-> d] : d \in Constraints_data[k]} : k \in Range(Kinds)}

\* C31: after any sequence of Constraints.add, Constraints.remove and
\* Constraints.clear the documents of the constraint collection are the rules
\* held in memory, kind by kind; a clear of one kind removes from the Store
\* only the rules of that kind.
C31_StoreIsMemory == store_constraint = ConstraintDocs

\* ---------------------------------------------------------------------------
\* grab_conflicts over the specifiers of two selected plugins: every operator
\* _REQUIREMENTS knows, on the versions 1..MaxVersion of one package, and a
\* requirement without operator

MaxVersion == 2

Conds == {">", ">=", "==", "<=", "<", "!=", "~="}

Specifiers == {Req("p", c, v) : c \in Conds, v \in 1..MaxVersion} \cup {Req("q", "", 0)}

\* config.packages of a plugin: up to two specifiers
PackageLists == {{}} \cup {{x, y} : x, y \in Specifiers}

InitConflicts ==
    /\ environ = [BOT_TOKEN |-> "v"]
    /\ Repos_plugins = <<>>
    /\ core = [branch |-> "alpha", version |-> 1, count |-> 1, failed |-> FALSE]
    /\ tree = {}
    /\ sel_pc = "idle" /\ sel_i = 0 /\ sel_n = 0 /\ plugins = <<>>
    /\ producers = [n \in Names |-> {}] /\ builtin = {}
    /\ overridden = 0 /\ conflicts = {} /\ retained = <<>>
    /\ LifeRunning
    /\ RpcIdle
    /\ AuxIdle

\* init_repos, lines 299-313, once per pass: the requirements of the selection
\* are audited and the plugins holding a reported conflict are deleted
AuditSelection ==
    /\ ret = <<>>
    /\ \E pa \in PackageLists, pb \in PackageLists :
        LET plgs == [n \in {"a", "b"} |->
                        [name |-> n, packages |-> IF n = "a" THEN pa ELSE pb]]
            requirements == pa \cup pb
            found == IF requirements = {} THEN {} ELSE grab_conflicts(requirements)
        IN  ret' = [plgs |-> plgs, requirements |-> requirements, conflicts |-> found,
                    kept |-> DOMAIN DropConflicts(plgs, found)]
    /\ UNCHANGED <<environ, Repos_plugins, core, tree, selVars, lifeVars, rpcVars, jobVars,
                   constVars, git_error, git_head>>

NextConflicts == AuditSelection

SpecConflicts == InitConflicts /\ [][NextConflicts]_vars

\* C33: grab_conflicts returns a subset of its input, specifiers with '~='
\* included, so every conflict is a member of the packages of a selected plugin
\* and every plugin holding one is dropped.
C33_ConflictsFromInput ==
    ret # <<>> =>
        /\ ret.conflicts \subseteq ret.requirements
        /\ \A c \in ret.conflicts :
               /\ \E n \in DOMAIN ret.plgs : c \in ret.plgs[n].packages
               /\ \A n \in DOMAIN ret.plgs : c \in ret.plgs[n].packages => n \notin ret.kept

\* a '~=' specifier was audited next to a conflict that dropped a plugin
C33_Witness ==
    /\ ret # <<>>
    /\ \E r \in ret.requirements : r.cond = "~="
    /\ ret.conflicts # {}
    /\ ret.kept # DOMAIN ret.plgs

\* the conflicts the audit worded in C34 reports
StatedConflicts(requirements) ==
    UNION {LET versions == to_audit(requirements, name)
               left == StatedAudit(versions, SortDesc(DOMAIN versions), 1, FALSE)
           IN  UNION {{Req(name, arg, v) : arg \in left[v]} : v \in DOMAIN left}
           : name \in {r.name : r \in {q \in requirements : q.cond # ""}}}

AfterPattern(args) ==
    IF \E k \in 1..Len(pattern) : pattern[k] \subseteq args
    THEN args \ pattern[CHOOSE k \in 1..Len(pattern) :
                            /\ pattern[k] \subseteq args
                            /\ \A j \in 1..(k - 1) : ~(pattern[j] \subseteq args)]
    ELSE args

\* the pattern taken away from these operators declares the breakpoint: it
\* holds none of '<=', '<' and '!='
Breaks(args) ==
    /\ AfterPattern(args) # args
    /\ (args \ AfterPattern(args)) \cap {"<=", "<", "!="} = {}

\* the version at which the breakpoint is declared: the highest version v such
\* that the pattern taken at v breaks and no pattern taken above v does
BreakVersions(versions) ==
    {v \in DOMAIN versions :
        /\ Breaks(versions[v])
        /\ \A w \in DOMAIN versions : w > v => ~Breaks(versions[w])}

\* the conflicts of one package by that rule
RuleConflicts(requirements, name) ==
    LET versions == to_audit(requirements, name)
    IN  UNION {{Req(name, arg, v) :
                   arg \in IF \E b \in BreakVersions(versions) : v < b
                           THEN versions[v] \ {">", ">=", "!="}
                           ELSE AfterPattern(versions[v])}
               : v \in DOMAIN versions}

Fetched == ret # <<>> /\ ret.op = "fetch" /\ ~ret.raised /\ ~ret.was_failed /\ ~core.failed

\* C32: after fetch() returns on a handle that is not failed, info.branch is a
\* local branch (the configured one if it exists, else the first local
\* branch), info.version is a commit that exists (the pinned one if it
\* resolves, else the head of the selected branch), and the Store holds the
\* new info exactly when this fetch changed the branch or the version
C32_FetchSelectsAndPersists ==
    Fetched =>
        /\ core.branch \in Range(CoreHeads)
        /\ core.branch = IF ret.core.branch \in Range(CoreHeads) THEN ret.core.branch
                         ELSE CoreHeads[1]
        /\ core.version \in Commits
        /\ core.version = IF ret.core.version \in Commits THEN ret.core.version
                          ELSE HeadCommit(core.branch)
        /\ IF core.branch # ret.core.branch \/ core.version # ret.core.version
           THEN store_core = <<[branch |-> core.branch, version |-> core.version]>>
           ELSE store_core = ret.store

C32_Witness ==
    /\ Fetched
    /\ ret.core.branch = "beta" /\ ret.core.version = 0
    /\ core.version = HeadCommit("beta")
    /\ store_core = <<[branch |-> "beta", version |-> HeadCommit("beta")]>>


\* error replies and the closed connection at the child's callers

\* C35: a reply that is an error object is raised at its caller, which gets no
\* value, and a call returns a value only for a reply that is none; a caller
\* that left its call holds neither lock, and the call after one that raised
\* receives the reply to its own frame; on a closed connection no caller waits
\* for a reply: the call raises at _send
C35_ErrorReplyRaisedLocksReleased ==
    /\ \A k \in 1..Len(received) :
           IF received[k].reply[1] # "result"
           THEN received[k].out.raised /\ received[k].out.value = <<>>
           ELSE ~received[k].out.raised /\ received[k].out.value = received[k].reply
    /\ \A c \in Callers :
           /\ callers[c].pc = "idle" => lock # c /\ a_lock # c
           /\ callers[c].out = "returned" =>
                  \E k \in 1..Len(received) :
                      received[k].by = c /\ received[k].reply[1] = "result"
    /\ \A k \in 1..(Len(received) - 1) :
           received[k].out.raised =>
               /\ received[k + 1].reply = Tasks_handle(sent[k + 1].frame)
               /\ received[k + 1].by = sent[k + 1].by
    /\ conn = "closed" =>
           /\ c2p = <<>>
           /\ \A c \in Callers : callers[c].pc # "wait"

\* a caller's call raised the error it was sent and its next call returned a
\* result; then the connection was closed and the call of the thread, which
\* never was sent a reply, raised
C35_Witness ==
    /\ Len(received) = 2
    /\ received[1].by = "co1" /\ received[1].out.raised
    /\ received[2].by = "co1" /\ ~received[2].out.raised
    /\ conn = "closed"
    /\ callers["th"].pc = "idle" /\ callers["th"].out = "raised"
    /\ lock = "none" /\ a_lock = "none"


\* the caller waits for _LOCK, whose holder awaits its reply in
\* send_and_async_wait and cannot be resumed, its event loop's thread being
\* held by a caller that has not reached an await
BlockedForever(c) ==
    /\ callers[c].pc = "lock"
    /\ lock \notin {"none", c}
    /\ callers[lock].mode = "async" /\ callers[lock].pc = "wait"
    /\ ~CanStep(lock)

\* C37: the child's transport is free of deadlock: no call, send_and_wait
\* issued on the event loop's thread while a send_and_async_wait awaits its
\* reply included, is ever left waiting for _LOCK with the holder unable to run
C37_NoCallBlocksForever == \A c \in Callers : ~BlockedForever(c)


\* the decision of load() after the RPC loop

\* C36: after the RPC loop exits, load() runs again, and with it a new child is
\* spawned, exactly when job 1 or 2 was handled during the lifetime of the
\* child that just ended; the check consumes the flag, which is set only while
\* such a request is pending, so the exit of a later child that asked for no
\* restart makes load() return
C36_RespawnIffRestartHandled ==
    /\ []((pc \in {"rpc", "after"}) => (S_restart <=> restart_kind # "none"))
    /\ []((pc \in {"load", "returned"}) => ~S_restart)
    /\ [][(pc = "after" /\ pc' \in {"load", "returned"}) =>
              /\ pc' = "load" <=> restart_kind # "none"
              /\ ~S_restart']_vars
    /\ [][(proc = "closed" /\ proc' = "alive") => cause' # "none"]_vars

\* the child that a restart job had spawned ended without asking for a
\* restart, and load() returned
C36_Witness == pc = "returned" /\ cause # "none" /\ restart_kind = "none" /\ proc = "closed"


\* C38: resolve_depends ends without raising for every selection, one whose
\* plugin has two or more dependencies that are not selected included
C38_ResolveDependsNeverRaises == sel_pc # "raised"


\* C40: any two plugin repos that are in the list at the same time have
\* different ids, different urls and different working-copy paths, so that the
\* rmtree of Repos.remove takes the working tree of the removed repo only
C40_DistinctIdsUrlsPaths ==
    \A i, j \in DOMAIN Repos_plugins :
        i # j =>
            /\ Repos_plugins[i].id # Repos_plugins[j].id
            /\ Repos_plugins[i].url # Repos_plugins[j].url
            /\ gen_path(Repos_plugins[i].url) # gen_path(Repos_plugins[j].url)


\* ---------------------------------------------------------------------------
\* Tasks.handle against what the handler it calls does.  A handler is any
\* callable given to Tasks.add; its call returns or raises.

\* the job codes of job.py, with one below and one above them
JobCodes == 0..25

\* what the call cls._handlers[job](*arg) does once the handler runs
Bodies == {"returns", "KeyError", "ValueError"}

\* Tasks.handle(job, *arg) with nargs arguments and a handler that does body:
\* the lookup of a job without handler raises KeyError, a wrong number of
\* arguments TypeError, and both except clauses cover the handler's call too
Tasks_handle_body(job, nargs, body) ==
    IF job \notin RegisteredJobs
    THEN [kind |-> "error", class |-> "KeyError", msg |-> "Invalid job id"]
    ELSE IF nargs # Arity(job)
    THEN [kind |-> "error", class |-> "TypeError", msg |-> "arguments"]
    ELSE IF body = "returns"
    THEN [kind |-> "result", class |-> "", msg |-> ""]
    ELSE IF body = "KeyError"
    THEN [kind |-> "error", class |-> "KeyError", msg |-> "Invalid job id"]
    ELSE [kind |-> "error", class |-> body, msg |-> "handler"]

InitTasks == InitRpc

\* one call of Tasks.handle
HandleJob ==
    /\ ret = <<>>
    /\ \E job \in JobCodes, nargs \in 0..3, body \in Bodies :
           ret' = [op |-> "handle", job |-> job, nargs |-> nargs, body |-> body,
                   reply |-> Tasks_handle_body(job, nargs, body)]
    /\ UNCHANGED <<environ, Repos_plugins, core, tree, selVars, lifeVars, rpcVars, jobVars,
                   constVars, git_error, git_head>>

NextTasks == HandleJob

SpecTasks == InitTasks /\ [][NextTasks]_vars

\* C39: Tasks.handle returns the 'Invalid job id' error only for a job code
\* without registered handler; a KeyError raised inside a registered handler
\* comes back as the handler's own error
C39_InvalidJobOnlyUnregistered ==
    (ret # <<>> /\ ret.op = "handle") =>
        /\ ret.reply.msg = "Invalid job id" => ret.job \notin RegisteredJobs
        /\ (ret.job \in RegisteredJobs /\ ret.nargs = Arity(ret.job) /\ ret.body # "returns") =>
               ret.reply = [kind |-> "error", class |-> ret.body, msg |-> "handler"]

====
